---- MODULE Spec2Model ----
(***************************************************************************)
(* potus: the agent loop (internal/agent), its Memory and Executor, and    *)
(* the context manager (Budget, Pruner, Compactor) it calls once per       *)
(* iteration.  Text is kept as strings so that the token estimator works   *)
(* on real lengths; the provider, the tools and the confirmation sender    *)
(* are the environment and choose their outputs from small sets.           *)
(***************************************************************************)
EXTENDS Integers, Sequences, FiniteSets, TLC

(***************************************************************************)
(* Program constants                                                       *)
(***************************************************************************)
MaxToolIterations == 10

ConfirmChanCap == 1

ProtectedMessages == 6

WarnPercent == 80

CompactPercent == 90

ProtectionPercent == 30

PrunePercent == 10

DefaultProtectedTools == {"file_read", "read_file", "search_content", "grep", "glob"}

PrunedPlaceholder == "[Previous tool result pruned for context management]"

AckText == "I understand the context from our previous conversation. I'll continue helping you with this understanding."

(***************************************************************************)
(* Bounds of the exploration                                               *)
(***************************************************************************)
\* ProcessMessage calls per session.
MaxTurns == 2

\* ToolUse events per session when the provider chooses freely.
MaxCalls == 2

\* TextDelta events per response.
MaxDeltas == 1

\* Lines of a response body an adapter reads.
MaxLines == 6

\* Messages of a sequence handed to Prune.
MaxPruneLen == 3

\* Longest list handed to ReplaceMessages, and most calls made on one Memory.
MaxReplaceLen == 2

MaxOps == 4

\* Most RecordUsage calls made on one Budget.
MaxRecords == 3

\* Buffer size of the context manager's event channel, and most
\* PrepareContext calls made on one Manager.
EventChanCap == 1

MaxPrepares == 2

\* The environments explored, one per behaviour:
\*  "stream": the provider's response is free (text, tool uses of the read-only
\*            tool, truncation, errors); tools succeed; one ProcessMessage.
\*  "exec":   responses are ToolUse* MessageDone; tool names, tool outcomes, the
\*            confirmation and the cancellation are free; one ProcessMessage.
\*  "deep":   the model asks for the read-only tool once per response, for as
\*            long as it likes; the context manager may compact.
\*  "prune":  as "deep" with short and long tool outputs, failing tools, and
\*            the compactor switched off; one ProcessMessage.
\*  "openai", "anthropic", "ollama": one response body read by that adapter's
\*            streamResponse; the agent is not run.
Modes == {"stream", "exec", "deep", "prune", "openai", "anthropic", "ollama"}

\* The environments of the other specifications:
\*  "tui":    the agent driven by the terminal UI, which reads the events.
\*  "pruner": Prune applied to a sequence of messages and token rows.
\*  "memory": calls on one Memory, from two threads.
\*  "budget": calls on one Budget, from two threads.
\*  "emit":   PrepareContext calls on a Manager with an event channel.

\* Tools the registry holds (cli/chat.go registers these among others).
Registered == {"file_read", "file_write", "file_edit", "file_delete", "bash"}

\* Names the provider may put in a ToolUse; "nope" is not registered.
ToolNames == Registered \cup {"nope"}

TextDeltas == {"", "ok"}

UserTexts == {"hi"}

\* A tool output longer than the pruner's placeholder.
LongOutput == "xxxxxxxxxxxxxxxxxxxxxxxxxxxxxxxxxxxxxxxxxxxxxxxxxxxxxxxxxxxxxxxx"

Summaries == {"SUM"}

\* Effective-limit configurations explored (max_tokens, reserve 0).
Budgets == {100}

(***************************************************************************)
(* Content blocks and messages (providers.Message)                         *)
(***************************************************************************)
TextContent(t) == [kind |-> "text", Text |-> t]

ToolUseContent(id, name, input) ==
    [kind |-> "tool_use", ID |-> id, Name |-> name, Input |-> input]

ToolResultContent(id, content, isErr) ==
    [kind |-> "tool_result", ToolUseID |-> id, Content |-> content, IsError |-> isErr]

Message(role, content) == [Role |-> role, Content |-> content]

\* A providers.ChatEvent as its reader sees it: the event's type, the id of
\* its ToolUse (0 when it has none) and its text.
Provided(kind, id, content) == [kind |-> kind, ID |-> id, Content |-> content]

\* s[1] + ... + s[n]
RECURSIVE SumTo(_, _)
SumTo(s, n) == IF n = 0 THEN 0 ELSE s[n] + SumTo(s, n - 1)

SumSeq(s) == CHOOSE total \in {SumTo(v, Len(v)) : v \in {s}} : TRUE

(***************************************************************************)
(* SimpleEstimator                                                         *)
(***************************************************************************)
EstimateTokens(text) == Len(text) \div 4

EstimateBlock(b) ==
    CASE b.kind = "text" -> EstimateTokens(b.Text)
      [] b.kind = "tool_use" -> 20 + EstimateTokens(b.Name) + EstimateTokens(b.Input)
      [] b.kind = "tool_result" -> 10 + EstimateTokens(b.Content)
      [] OTHER -> 0

EstimateMessage(msg) ==
    4 + SumSeq([j \in 1..Len(msg.Content) |-> EstimateBlock(msg.Content[j])])

EstimateMessages(msgs) ==
    SumSeq([j \in 1..Len(msgs) |-> EstimateMessage(msgs[j])])

(***************************************************************************)
(* Memory                                                                  *)
(***************************************************************************)
isPrunable(msg) ==
    \/ msg.Role = "tool"
    \/ \E j \in 1..Len(msg.Content) : msg.Content[j].kind = "tool_result"

FirstOfKind(msg, kind) ==
    LET hits == {j \in 1..Len(msg.Content) : msg.Content[j].kind = kind}
    IN  IF hits = {} THEN 0 ELSE CHOOSE j \in hits : \A h \in hits : j <= h

extractToolName(msg) ==
    LET j == FirstOfKind(msg, "tool_use")
    IN  IF j = 0 THEN "" ELSE msg.Content[j].Name

extractToolUseID(msg) ==
    LET j == FirstOfKind(msg, "tool_result")
    IN  IF j = 0 THEN 0 ELSE msg.Content[j].ToolUseID

\* One row of Memory.tokenInfo; MessageIndex is 0-based as in the code.
TokenInfoRow(index, msg) ==
    [MessageIndex |-> index,
     Tokens       |-> EstimateMessage(msg),
     Role         |-> msg.Role,
     IsPrunable   |-> isPrunable(msg),
     ToolName     |-> extractToolName(msg),
     ToolUseID    |-> extractToolUseID(msg)]

NewMemory ==
    [messages |-> <<>>, tokenInfo |-> <<>>, totalTokens |-> 0, systemTokens |-> 0]

AddMessage(m, msg) ==
    [m EXCEPT !.messages    = Append(@, msg),
              !.tokenInfo   = Append(@, TokenInfoRow(Len(m.messages), msg)),
              !.totalTokens = @ + EstimateMessage(msg)]

AddUserMessage(m, text) == AddMessage(m, Message("user", <<TextContent(text)>>))

\* Variant: ReplaceMessages that keeps the rows of the messages it replaces.
ReplaceMessagesKeepsRows(m, msgs) ==
    [m EXCEPT !.messages = msgs, !.totalTokens = EstimateMessages(msgs)]

ReplaceMessages(m, msgs) ==
    [m EXCEPT !.messages    = msgs,
              !.tokenInfo   = [j \in 1..Len(msgs) |-> TokenInfoRow(j - 1, msgs[j])],
              !.totalTokens = EstimateMessages(msgs)]

\* memory.go 61-68: a copy of the message list.
GetMessages(m) == m.messages

GetTokenInfo(m) == m.tokenInfo

SetSystemTokens(m, tokens) == [m EXCEPT !.systemTokens = tokens]

\* Variant: Clear that forgets the messages and keeps their token count.
ClearKeepsTotal(m) == [m EXCEPT !.messages = <<>>, !.tokenInfo = <<>>]

Clear(m) == [m EXCEPT !.messages = <<>>, !.tokenInfo = <<>>, !.totalTokens = 0]

\* sync.RWMutex, as the number of the goroutine that holds the write lock
\* (0: none).  Variant: a lock that excludes nobody.
LockFreeAlways(holder) == TRUE

LockFree(holder) == holder = 0

GetTotalTokens(m) == m.totalTokens + m.systemTokens

\* Variant: a model context size, when set, is the limit, smaller or not.
GetEffectiveLimitModelFirst(b) ==
    (IF b.modelContextSize > 0 THEN b.modelContextSize ELSE b.maxTokens)
        - b.reserveForResponse

(***************************************************************************)
(* Budget                                                                  *)
(***************************************************************************)
\* b = [maxTokens, reserveForResponse, modelContextSize]
GetEffectiveLimit(b) ==
    LET limit == IF b.modelContextSize > 0 /\ b.modelContextSize < b.maxTokens
                 THEN b.modelContextSize ELSE b.maxTokens
    IN  limit - b.reserveForResponse

\* Variant: a level is reached only above its threshold.
AtLevelAbove(b, currentTokens, percent) ==
    GetEffectiveLimit(b) > 0 /\ currentTokens * 100 > percent * GetEffectiveLimit(b)

\* usagePercent >= threshold*100, with usagePercent = current/effectiveMax*100
\* when effectiveMax > 0 and 0 otherwise.
AtLevel(b, currentTokens, percent) ==
    LET effectiveMax == GetEffectiveLimit(b)
    IN  IF effectiveMax > 0
        THEN currentTokens * 100 >= percent * effectiveMax
        ELSE 0 >= percent

\* The whole part of usagePercent.
UsagePercent(b, currentTokens) ==
    IF GetEffectiveLimit(b) > 0
    THEN (currentTokens * 100) \div GetEffectiveLimit(b)
    ELSE 0

GetSnapshot(b, currentTokens) ==
    [CurrentContextTokens |-> currentTokens,
     MaxContextTokens     |-> GetEffectiveLimit(b),
     UsagePercent         |-> UsagePercent(b, currentTokens),
     AtWarningLevel       |-> AtLevel(b, currentTokens, WarnPercent),
     AtCompactLevel       |-> AtLevel(b, currentTokens, CompactPercent)]

UpdateModelContextSize(b, size) == [b EXCEPT !.modelContextSize = size]

(***************************************************************************)
(* float64, with the significand narrowed from 53 bits to FloatBits: a     *)
(* value is m * 2^e with m = 0 or 2^(FloatBits-1) <= m < 2^FloatBits, and  *)
(* every operation rounds its exact result to the nearest such value, ties *)
(* to the even m.                                                          *)
(***************************************************************************)
FloatBits == 5

RECURSIVE Pow2(_)
Pow2(n) == IF n = 0 THEN 1 ELSE 2 * Pow2(n - 1)

FloatZero == [m |-> 0, e |-> 0]

\* (num / den) * 2^e with num / den brought into [2^(FloatBits-1), 2^FloatBits).
RECURSIVE Normalize(_, _, _)
Normalize(num, den, e) ==
    IF num >= Pow2(FloatBits) * den THEN Normalize(num, 2 * den, e + 1)
    ELSE IF num < Pow2(FloatBits - 1) * den THEN Normalize(2 * num, den, e - 1)
    ELSE [num |-> num, den |-> den, e |-> e]

\* The float nearest to (num / den) * 2^e.
RoundFloat(num, den, e) ==
    IF num = 0 THEN FloatZero
    ELSE LET n == Normalize(num, den, e)
             q == n.num \div n.den
             r == n.num % n.den
             up == 2 * r > n.den \/ (2 * r = n.den /\ q % 2 = 1)
             m == IF up THEN q + 1 ELSE q
         IN  IF m = Pow2(FloatBits)
             THEN [m |-> Pow2(FloatBits - 1), e |-> n.e + 1]
             ELSE [m |-> m, e |-> n.e]

\* float64(n) of an int.
FloatOf(n) == RoundFloat(n, 1, 0)

FloatDiv(x, n) == RoundFloat(x.m, n, x.e)

FloatMul(x, y) == RoundFloat(x.m * y.m, 1, x.e + y.e)

FloatAdd(x, y) ==
    LET low == IF x.e < y.e THEN x.e ELSE y.e
    IN  IF x.m = 0 THEN y
        ELSE IF y.m = 0 THEN x
        ELSE RoundFloat(x.m * Pow2(x.e - low) + y.m * Pow2(y.e - low), 1, low)

\* budget.go 75-76: float64(tokens) / 1_000_000 * pricePer1M.
TokenCost(tokens, pricePer1M) ==
    FloatMul(FloatDiv(FloatOf(tokens), 1000000), pricePer1M)

NewBudget(maxTokens, reserveForResponse, modelContextSize) ==
    [maxTokens |-> maxTokens, reserveForResponse |-> reserveForResponse,
     modelContextSize |-> modelContextSize,
     totalInputTokens |-> 0, totalOutputTokens |-> 0, sessionCost |-> FloatZero,
     inputPricePer1M |-> FloatZero, outputPricePer1M |-> FloatZero]

SetPricing(b, inputPer1M, outputPer1M) ==
    [b EXCEPT !.inputPricePer1M = FloatOf(inputPer1M),
              !.outputPricePer1M = FloatOf(outputPer1M)]

RecordUsage(b, inputTokens, outputTokens) ==
    [b EXCEPT !.totalInputTokens  = @ + inputTokens,
              !.totalOutputTokens = @ + outputTokens,
              !.sessionCost = FloatAdd(@, FloatAdd(TokenCost(inputTokens, b.inputPricePer1M),
                                                   TokenCost(outputTokens, b.outputPricePer1M)))]

(***************************************************************************)
(* Pruner                                                                  *)
(***************************************************************************)
\* Variant: no tool is protected.
isProtectedToolNever(protected, toolName) == FALSE

isProtectedTool(protected, toolName) == toolName \in protected

ShouldPrune(protected, tokenInfo) ==
    LET totalTokens == SumSeq([j \in 1..Len(tokenInfo) |-> tokenInfo[j].Tokens])
        prunableTokens ==
            SumSeq([j \in 1..Len(tokenInfo) |->
                     IF tokenInfo[j].IsPrunable
                        /\ ~isProtectedTool(protected, tokenInfo[j].ToolName)
                     THEN tokenInfo[j].Tokens ELSE 0])
    IN  prunableTokens > 0 /\ prunableTokens * 100 >= PrunePercent * totalTokens

\* Variant: the placeholder block is built without copying the error flag.
pruneMessageDropsFlag(msg) ==
    Message(msg.Role,
            [j \in 1..Len(msg.Content) |->
                IF msg.Content[j].kind = "tool_result"
                THEN ToolResultContent(msg.Content[j].ToolUseID, PrunedPlaceholder, FALSE)
                ELSE msg.Content[j]])

\* Variant: only the tool results are copied into the new message.
pruneMessageResultsOnly(msg) ==
    Message(msg.Role,
            SelectSeq([j \in 1..Len(msg.Content) |->
                          IF msg.Content[j].kind = "tool_result"
                          THEN ToolResultContent(msg.Content[j].ToolUseID,
                                                 PrunedPlaceholder, msg.Content[j].IsError)
                          ELSE msg.Content[j]],
                      LAMBDA b : b.kind = "tool_result"))

\* Variant: the placeholder is put in front of the old content.
pruneMessageStacks(msg) ==
    Message(msg.Role,
            [j \in 1..Len(msg.Content) |->
                IF msg.Content[j].kind = "tool_result"
                THEN ToolResultContent(msg.Content[j].ToolUseID,
                                       PrunedPlaceholder \o msg.Content[j].Content,
                                       msg.Content[j].IsError)
                ELSE msg.Content[j]])

pruneMessage(msg) ==
    Message(msg.Role,
            [j \in 1..Len(msg.Content) |->
                IF msg.Content[j].kind = "tool_result"
                THEN ToolResultContent(msg.Content[j].ToolUseID, PrunedPlaceholder,
                                       msg.Content[j].IsError)
                ELSE msg.Content[j]])

\* Sum of tokenInfo[j..Len].Tokens (1-based j).
SuffixTokens(tokenInfo, j) ==
    SumSeq([k \in 1..(Len(tokenInfo) - j + 1) |-> tokenInfo[j + k - 1].Tokens])

\* 0-based cutoff index: the largest i whose suffix sum reaches the
\* protected threshold, len(messages) when none does.
CutoffIndex(messages, tokenInfo) ==
    CHOOSE cutoffIndex \in
        {IF hits = {} THEN Len(messages)
         ELSE (CHOOSE j \in hits : \A h \in hits : h <= j) - 1 :
         hits \in {{j \in 1..Len(tokenInfo) :
                      SuffixTokens(tokenInfo, j) >= protectedThreshold} :
                   protectedThreshold \in
                       {(SuffixTokens(tokenInfo, 1) * ProtectionPercent) \div 100}}} :
        TRUE

Prune(protected, messages, tokenInfo) ==
    IF Len(messages) = 0 \/ Len(tokenInfo) = 0 THEN messages
    ELSE CHOOSE pruned \in
            {[j \in 1..Len(messages) |->
                IF j - 1 >= cutoffIndex THEN messages[j]
                ELSE IF j <= Len(tokenInfo) /\ tokenInfo[j].IsPrunable
                        /\ ~isProtectedTool(protected, tokenInfo[j].ToolName)
                     THEN pruneMessage(messages[j])
                     ELSE messages[j]] :
             cutoffIndex \in {CutoffIndex(messages, tokenInfo)}} : TRUE

(***************************************************************************)
(* Compactor                                                               *)
(***************************************************************************)
SummaryMessage(summary) ==
    Message("user", <<TextContent("[Previous Conversation Summary]\n" \o summary
                                  \o "\n[End Summary]")>>)

AckMessage == Message("assistant", <<TextContent(AckText)>>)

\* Variant: the preserved tail is cut one message too early.
CompactOffByOne(messages, summary) ==
    IF Len(messages) <= ProtectedMessages THEN messages
    ELSE LET toPreserve == SubSeq(messages, Len(messages) - ProtectedMessages,
                                  Len(messages))
         IN  <<SummaryMessage(summary), AckMessage>> \o toPreserve

\* The sequence Compact returns when the summary request succeeded.
Compact(messages, summary) ==
    IF Len(messages) <= ProtectedMessages THEN messages
    ELSE LET toPreserve == SubSeq(messages, Len(messages) - ProtectedMessages + 1,
                                  Len(messages))
         IN  <<SummaryMessage(summary), AckMessage>> \o toPreserve

\* Compact issues a summary request only when there is something to summarize.
NeedsSummary(messages) == Len(messages) > ProtectedMessages

\* strings.TrimSpace
TrimSpace(str) ==
    LET keep == {k \in 1..Len(str) : SubSeq(str, k, k) \notin {" ", "\n", "\t"}}
    IN  IF keep = {} THEN ""
        ELSE SubSeq(str, CHOOSE k \in keep : \A h \in keep : k <= h,
                         CHOOSE k \in keep : \A h \in keep : h <= k)

\* The text deltas of events[1..n], concatenated.
RECURSIVE DeltaText(_, _)
DeltaText(events, n) ==
    IF n = 0 THEN ""
    ELSE DeltaText(events, n - 1)
           \o (IF events[n].kind = "text_delta" THEN events[n].Content ELSE "")

\* Variant: an Error event in the summary stream is skipped like any other
\* event that is no TextDelta.
generateSummaryIgnoresError(reply) ==
    IF reply.chatErr THEN [ok |-> FALSE, text |-> ""]
    ELSE [ok |-> TRUE, text |-> TrimSpace(DeltaText(reply.events, Len(reply.events)))]

\* reply = [chatErr, events]: provider.Chat failed, or the events its stream
\* delivered before it was closed.
generateSummary(reply) ==
    IF reply.chatErr THEN [ok |-> FALSE, text |-> ""]
    ELSE IF \E k \in 1..Len(reply.events) : reply.events[k].kind = "error"
    THEN [ok |-> FALSE, text |-> ""]
    ELSE [ok |-> TRUE, text |-> TrimSpace(DeltaText(reply.events, Len(reply.events)))]

(***************************************************************************)
(* ContextManager                                                          *)
(***************************************************************************)
\* A chan ContextEvent: present is FALSE for nil, cap is its buffer size, buf
\* the events buffered.  The result of a send: the channel after it, and
\* whether the sender is left waiting.
NilEventChan == [present |-> FALSE, cap |-> 0, buf |-> <<>>]

EventChanOf(cap, buf) == [present |-> TRUE, cap |-> cap, buf |-> buf]

\* Variant: a plain send, m.eventChan <- event, which waits for room.
emitEventWaits(ch, event) ==
    IF ch.present /\ Len(ch.buf) < ch.cap
    THEN [ch |-> [ch EXCEPT !.buf = Append(@, event)], waits |-> FALSE]
    ELSE [ch |-> ch, waits |-> TRUE]

\* Manager.emitEvent: a send in a select with a default case.
emitEvent(ch, event) ==
    IF ch.present /\ Len(ch.buf) < ch.cap
    THEN [ch |-> [ch EXCEPT !.buf = Append(@, event)], waits |-> FALSE]
    ELSE [ch |-> ch, waits |-> FALSE]

\* cm = [present, budget, autoCompact, autoPrune, hasCompactor, protected]
calculateTokens(tokenInfo) ==
    SumSeq([j \in 1..Len(tokenInfo) |-> tokenInfo[j].Tokens])

CheckContext(cm, currentTokens) ==
    LET snapshot == GetSnapshot(cm.budget, currentTokens)
    IN  IF snapshot.AtCompactLevel THEN "compact"
        ELSE IF snapshot.AtWarningLevel THEN "warn"
        ELSE "none"

\* Variant: the two branches of ActionCompact are in the other order, the
\* pruner is tried first.
PrepareContextPruneFirst(cm, msgs, tokenInfo, summary) ==
    LET action == CheckContext(cm, calculateTokens(tokenInfo))
    IN  IF action = "warn"
        THEN [messages |-> msgs, err |-> FALSE, event |-> "warning", chats |-> 0]
        ELSE IF action = "compact"
        THEN IF cm.autoPrune /\ ShouldPrune(cm.protected, tokenInfo)
             THEN [messages |-> Prune(cm.protected, msgs, tokenInfo), err |-> FALSE,
                   event |-> "pruned", chats |-> 0]
             ELSE IF cm.autoCompact /\ cm.hasCompactor
             THEN IF NeedsSummary(msgs) /\ ~summary.ok
                  THEN [messages |-> msgs, err |-> TRUE, event |-> "error", chats |-> 1]
                  ELSE [messages |-> Compact(msgs, summary.text), err |-> FALSE,
                        event |-> "compacted",
                        chats |-> IF NeedsSummary(msgs) THEN 1 ELSE 0]
             ELSE [messages |-> msgs, err |-> FALSE, event |-> "warning", chats |-> 0]
        ELSE [messages |-> msgs, err |-> FALSE, event |-> "none", chats |-> 0]

\* summary = [ok |-> BOOLEAN, text |-> STRING] is what the summary request
\* gives when Compact issues one.  The result carries the returned messages,
\* the error flag, the context event published and the number of provider
\* requests the call issued.
PrepareContext(cm, msgs, tokenInfo, summary) ==
    LET action == CheckContext(cm, calculateTokens(tokenInfo))
    IN  IF action = "warn"
        THEN [messages |-> msgs, err |-> FALSE, event |-> "warning", chats |-> 0]
        ELSE IF action = "compact"
        THEN IF cm.autoCompact /\ cm.hasCompactor
             THEN IF NeedsSummary(msgs) /\ ~summary.ok
                  THEN [messages |-> msgs, err |-> TRUE, event |-> "error", chats |-> 1]
                  ELSE [messages |-> Compact(msgs, summary.text), err |-> FALSE,
                        event |-> "compacted",
                        chats |-> IF NeedsSummary(msgs) THEN 1 ELSE 0]
             ELSE IF cm.autoPrune /\ ShouldPrune(cm.protected, tokenInfo)
             THEN [messages |-> Prune(cm.protected, msgs, tokenInfo), err |-> FALSE,
                   event |-> "pruned", chats |-> 0]
             ELSE [messages |-> msgs, err |-> FALSE, event |-> "warning", chats |-> 0]
        ELSE [messages |-> msgs, err |-> FALSE, event |-> "none", chats |-> 0]

\* What the provider answers to a summary request: a failed call, a complete
\* stream (with or without surrounding white space), a stream cut by an Error
\* event, a stream closed without any event.
SummaryReplies ==
    {[chatErr |-> TRUE, events |-> <<>>]}
    \cup {[chatErr |-> FALSE, events |-> e] :
            e \in UNION {{<<Provided("text_delta", 0, t), Provided("message_done", 0, "")>>,
                          <<Provided("text_delta", 0, " " \o t),
                            Provided("text_delta", 0, "\n"),
                            Provided("message_done", 0, "")>>,
                          <<Provided("text_delta", 0, t), Provided("error", 0, "")>>,
                          <<>>} : t \in Summaries}}

\* No summary request was made.
NoReply == [chatErr |-> FALSE, events |-> <<>>]

RepliesFor(msgs) == IF NeedsSummary(msgs) THEN SummaryReplies ELSE {NoReply}

SummaryResults(msgs) == {generateSummary(reply) : reply \in RepliesFor(msgs)}

\* What is recorded of one PrepareContext call.
Prepared(msgs, reply, r) ==
    [in |-> msgs, reply |-> reply, out |-> r.messages, err |-> r.err,
     event |-> r.event]

NoPrepared ==
    Prepared(<<>>, NoReply, [messages |-> <<>>, err |-> FALSE, event |-> "none"])

(***************************************************************************)
(* Executor                                                                *)
(***************************************************************************)
\* Settings: present is FALSE for a nil *Settings; Permissions holds the tool
\* names mapped to "allow".
NoSettings == [present |-> FALSE, Permissions |-> {}]

Settings(allowed) == [present |-> TRUE, Permissions |-> allowed]

IsAllowed(s, name) == s.present /\ name \in s.Permissions

needsConfirmation(s, name) ==
    IF IsAllowed(s, name) THEN FALSE
    ELSE name \in {"file_write", "file_edit", "file_delete", "bash"}

\* Variant: the record is not entered into the map.
SetAllowIgnored(s, name) == s

SetAllow(s, name) == [s EXCEPT !.Permissions = @ \cup {name}]

\* Settings.Save: the tool names the file records as "allow".
Save(s) == s.Permissions

\* permissions.LoadSettings: the settings a new process reads from the file.
LoadSettings(file) == Settings(file)

\* What the loop wraps into a ToolResult for each way Execute can end.
\* outcome: "not_found" | "ctx" | "deny" | "error" | "fail" | "ok"
ResultContent(outcome, output) ==
    CASE outcome = "not_found" -> "tool not found"
      [] outcome = "ctx"       -> "confirmation failed"
      [] outcome = "deny"      -> "operation denied by user"
      [] outcome = "error"     -> "tool execution failed"
      [] OTHER                 -> output

\* Variant: only an error returned by Execute marks the result, a result
\* with Success = false does not.
ResultIsErrorOnlyOnErr(outcome) == outcome \in {"not_found", "error"}

ResultIsError(outcome) == outcome # "ok"

ToolResultFor(toolCall, outcome, output) ==
    ToolResultContent(toolCall.ID, ResultContent(outcome, output), ResultIsError(outcome))

\* Variant: each result overwrites the previous one instead of being appended.
ToolMessageLastOnly(results) ==
    Message("tool", IF results = <<>> THEN <<>> ELSE <<results[Len(results)]>>)

ToolMessage(results) == Message("tool", results)

(***************************************************************************)
(* Provider adapters: streamResponse of the openai, anthropic and ollama   *)
(* clients.  A response body is the sequence of lines the scanner returns; *)
(* a line is ignored ("skip": no "data: " prefix), is the "[DONE]" marker  *)
(* ("done"), fails to parse as JSON ("bad") or carries a chunk ("data").   *)
(***************************************************************************)
Adapters == {"openai", "anthropic", "ollama"}

\* A JSON object as json.Unmarshal leaves it in a map: nil, or its members.
NilObject == [nil |-> TRUE, members |-> {}]

Object(members) == [nil |-> FALSE, members |-> members]

NoToolUse == [ID |-> "", Name |-> "", Input |-> NilObject]

ToolUse(id, name, input) == [ID |-> id, Name |-> name, Input |-> input]

\* providers.ChatEvent as an adapter sends it.
ChatEvent(type, content, toolUse) ==
    [Type |-> type, Content |-> content, ToolUse |-> toolUse]

EvStart == ChatEvent("message_start", "", NoToolUse)

EvDelta(text) == ChatEvent("text_delta", text, NoToolUse)

EvToolUse(toolUse) == ChatEvent("tool_use", "", toolUse)

EvDone == ChatEvent("message_done", "", NoToolUse)

EvFailure(cause) == ChatEvent("error", cause, NoToolUse)

\* The tokens of a JSON text made of braces, colons, commas and string
\* literals without escapes: a literal becomes [str |-> TRUE, v |-> its text],
\* any other character outside a literal a token of its own; white space
\* between tokens is dropped.  An unterminated literal gives Malformed.
Malformed == <<[str |-> FALSE, v |-> "!"]>>

RECURSIVE Tokenize(_, _, _, _, _)
Tokenize(text, k, inStr, cur, acc) ==
    IF k > Len(text) THEN (IF inStr THEN Malformed ELSE acc)
    ELSE LET c == SubSeq(text, k, k)
         IN  IF inStr
             THEN IF c = "\""
                  THEN Tokenize(text, k + 1, FALSE, "",
                                Append(acc, [str |-> TRUE, v |-> cur]))
                  ELSE Tokenize(text, k + 1, TRUE, cur \o c, acc)
             ELSE IF c = "\"" THEN Tokenize(text, k + 1, TRUE, "", acc)
             ELSE IF c \in {" ", "\n", "\t"} THEN Tokenize(text, k + 1, FALSE, "", acc)
             ELSE Tokenize(text, k + 1, FALSE, "", Append(acc, [str |-> FALSE, v |-> c]))

Punct(tok, c) == ~tok.str /\ tok.v = c

\* json.Unmarshal([]byte(text), &input) with input a nil map; the error is
\* dropped, so text that is no JSON object leaves the map nil.
ParseObject(text) ==
    LET t == Tokenize(text, 1, FALSE, "", <<>>)
        n == Len(t)
    IN  IF /\ n >= 2
           /\ Punct(t[1], "{")
           /\ Punct(t[n], "}")
           /\ (n = 2 \/ (n - 2) % 4 = 3)
           /\ \A j \in 2..(n - 1) :
                  CASE (j - 1) % 4 = 1 -> t[j].str
                    [] (j - 1) % 4 = 2 -> Punct(t[j], ":")
                    [] (j - 1) % 4 = 3 -> t[j].str
                    [] OTHER           -> Punct(t[j], ",")
        THEN Object({<<t[j].v, t[j + 2].v>> : j \in {h \in 2..(n - 1) : (h - 1) % 4 = 1}})
        ELSE NilObject

\* One element of a chunk's tool_calls array: the fields it carries.
ToolCallDelta(hasID, id, hasName, name, hasArgs, args, input) ==
    [hasID |-> hasID, id |-> id, hasName |-> hasName, name |-> name,
     hasArgs |-> hasArgs, args |-> args, input |-> input]

\* A line of the body.  type is the anthropic event type, finish the openai
\* finish_reason, tcs the tool calls (openai deltas, the anthropic content
\* block, ollama calls).
Line(kind, type, content, tcs, finish) ==
    [kind |-> kind, type |-> type, content |-> content, tcs |-> tcs, finish |-> finish]

SkipLine == Line("skip", "", "", <<>>, "")

BadLine == Line("bad", "", "", <<>>, "")

DoneLine == Line("done", "", "", <<>>, "")

\* openai: currentToolCall and accumulatedArgs before any chunk.
NoToolCall == [hasID |-> FALSE, id |-> "", hasName |-> FALSE, name |-> ""]

\* Variant: each arguments fragment replaces the accumulated text.
RECURSIVE AccumulateOverwrites(_, _, _, _)
AccumulateOverwrites(cur, args, tcs, n) ==
    IF n = 0 THEN [cur |-> cur, args |-> args]
    ELSE LET p  == AccumulateOverwrites(cur, args, tcs, n - 1)
             tc == tcs[n]
         IN  [cur  |-> [hasID   |-> p.cur.hasID \/ tc.hasID,
                        id      |-> IF tc.hasID THEN tc.id ELSE p.cur.id,
                        hasName |-> p.cur.hasName \/ tc.hasName,
                        name    |-> IF tc.hasName THEN tc.name ELSE p.cur.name],
              args |-> IF tc.hasArgs THEN tc.args ELSE p.args]

\* openai, part_003 384-401: fold the first n tool call deltas of a chunk into
\* currentToolCall and accumulatedArgs.
RECURSIVE Accumulate(_, _, _, _)
Accumulate(cur, args, tcs, n) ==
    IF n = 0 THEN [cur |-> cur, args |-> args]
    ELSE LET p  == Accumulate(cur, args, tcs, n - 1)
             tc == tcs[n]
         IN  [cur  |-> [hasID   |-> p.cur.hasID \/ tc.hasID,
                        id      |-> IF tc.hasID THEN tc.id ELSE p.cur.id,
                        hasName |-> p.cur.hasName \/ tc.hasName,
                        name    |-> IF tc.hasName THEN tc.name ELSE p.cur.name],
              args |-> IF tc.hasArgs THEN p.args \o tc.args ELSE p.args]

\* openai, part_003 358-418: one chunk that parsed.  type = "nochoices" is a
\* chunk without choices or without a delta.
openaiChunk(em, cur, args, line) ==
    IF line.type = "nochoices" THEN [emitted |-> em, cur |-> cur, args |-> args]
    ELSE LET e1  == IF line.content # "" THEN Append(em, EvDelta(line.content)) ELSE em
             acc == Accumulate(cur, args, line.tcs, Len(line.tcs))
         IN  [emitted |->
                 IF line.finish = "tool_calls" /\ acc.cur.hasID /\ acc.cur.hasName
                 THEN Append(e1, EvToolUse(ToolUse(acc.cur.id, acc.cur.name,
                                                   ParseObject(acc.args))))
                 ELSE e1,
              cur |-> acc.cur, args |-> acc.args]

\* anthropic, handleEvent.
anthropicEvent(em, line) ==
    CASE line.type = "message_start" -> Append(em, EvStart)
      [] line.type = "content_block_delta" /\ line.finish = "text_delta" ->
             Append(em, EvDelta(line.content))
      [] line.type = "content_block_stop" /\ line.tcs # <<>> ->
             Append(em, EvToolUse(ToolUse(line.tcs[1].id, line.tcs[1].name,
                                          line.tcs[1].input)))
      [] line.type = "message_stop" -> Append(em, EvDone)
      [] OTHER -> em

\* ollama, client.go 225-246: the tool calls of one chunk, each a ToolUse
\* whose id is made from the function name.
RECURSIVE ollamaToolUses(_, _)
ollamaToolUses(tcs, n) ==
    IF n = 0 THEN <<>>
    ELSE Append(ollamaToolUses(tcs, n - 1),
                EvToolUse(ToolUse("tool_" \o tcs[n].name, tcs[n].name, tcs[n].input)))

ollamaChunk(em, line) ==
    (IF line.content # "" THEN Append(em, EvDelta(line.content)) ELSE em)
        \o ollamaToolUses(line.tcs, Len(line.tcs))

\* What streamResponse sends before it reads the body.
BeforeLoop(adapter) == IF adapter = "anthropic" THEN <<>> ELSE <<EvStart>>

\* Variant: openai's MessageDone is sent only when the scanner ended cleanly.
AfterLoopDoneOnlyIfClean(adapter, em, readErr) ==
    IF readErr THEN Append(em, EvFailure("scanner error"))
    ELSE IF adapter = "openai" THEN Append(em, EvDone) ELSE em

\* The code behind the scan loop: openai sends MessageDone, and every adapter
\* an Error when the scanner stopped on a read error.
AfterLoop(adapter, em, readErr) ==
    LET e1 == IF adapter = "openai" THEN Append(em, EvDone) ELSE em
    IN  IF readErr THEN Append(e1, EvFailure("scanner error")) ELSE e1

\* One line read by the scan loop of an adapter: what is sent for it, the
\* accumulators afterwards, and whether the loop is left (break or return).
streamLine(adapter, em, cur, args, line) ==
    CASE line.kind = "skip" ->
             [emitted |-> em, cur |-> cur, args |-> args, closed |-> FALSE]
      [] line.kind = "bad" ->
             [emitted |-> Append(em, EvFailure("failed to parse")),
              cur |-> cur, args |-> args, closed |-> TRUE]
      [] line.kind = "done" ->
             [emitted |-> AfterLoop(adapter,
                                    IF adapter = "ollama" THEN Append(em, EvDone) ELSE em,
                                    FALSE),
              cur |-> cur, args |-> args, closed |-> TRUE]
      [] OTHER ->
             CASE adapter = "openai" ->
                      LET r == openaiChunk(em, cur, args, line)
                      IN  [emitted |-> r.emitted, cur |-> r.cur, args |-> r.args,
                           closed |-> FALSE]
               [] adapter = "anthropic" ->
                      [emitted |-> anthropicEvent(em, line), cur |-> cur,
                       args |-> args, closed |-> FALSE]
               [] OTHER ->
                      [emitted |-> ollamaChunk(em, line), cur |-> cur,
                       args |-> args, closed |-> FALSE]

\* The lines a server may send to each adapter.
OpenAILines ==
    {SkipLine, BadLine, DoneLine,
     Line("data", "nochoices", "", <<>>, ""),
     Line("data", "", "ok", <<>>, ""),
     Line("data", "", "", <<ToolCallDelta(TRUE, "c1", FALSE, "", FALSE, "", NilObject)>>, ""),
     Line("data", "", "", <<ToolCallDelta(FALSE, "", TRUE, "file_read", FALSE, "", NilObject)>>, ""),
     Line("data", "", "", <<ToolCallDelta(FALSE, "", FALSE, "", TRUE, "{\"pa", NilObject)>>, ""),
     Line("data", "", "", <<ToolCallDelta(FALSE, "", FALSE, "", TRUE, "th\": \"foo\"}", NilObject)>>, ""),
     Line("data", "", "",
          <<ToolCallDelta(TRUE, "c2", TRUE, "bash", TRUE, "{\"cmd\": \"ls\"}", NilObject)>>, ""),
     Line("data", "", "", <<>>, "tool_calls"),
     Line("data", "", "", <<>>, "stop")}

AnthropicLines ==
    {SkipLine, BadLine, DoneLine,
     Line("data", "message_start", "", <<>>, ""),
     Line("data", "content_block_delta", "ok", <<>>, "text_delta"),
     Line("data", "content_block_delta", "", <<>>, "input_json_delta"),
     Line("data", "content_block_stop", "",
          <<ToolCallDelta(TRUE, "c1", TRUE, "file_read", FALSE, "",
                          Object({<<"path", "foo">>}))>>, ""),
     Line("data", "content_block_stop", "", <<>>, ""),
     Line("data", "message_stop", "", <<>>, "")}

OllamaLines ==
    {BadLine, DoneLine,
     Line("data", "", "ok", <<>>, ""),
     Line("data", "", "", <<>>, ""),
     Line("data", "", "",
          <<ToolCallDelta(FALSE, "", TRUE, "file_read", FALSE, "",
                          Object({<<"path", "foo">>}))>>, ""),
     Line("data", "", "",
          <<ToolCallDelta(FALSE, "", TRUE, "file_read", FALSE, "",
                          Object({<<"path", "foo">>})),
            ToolCallDelta(FALSE, "", TRUE, "file_read", FALSE, "",
                          Object({<<"path", "bar">>}))>>, "")}

LinesOf(adapter) ==
    CASE adapter = "openai"    -> OpenAILines
      [] adapter = "anthropic" -> AnthropicLines
      [] OTHER                 -> OllamaLines

(***************************************************************************)
(* Prune and Memory on their own                                           *)
(***************************************************************************)
\* What a caller may hand to Prune: messages, and for each a row of its own
\* making (tokens, prunable or not, the tool's name), as the Pruner's tests do.
PrunerMessages ==
    {Message("user", <<TextContent("hi")>>),
     Message("tool", <<ToolResultContent(1, "BODY", FALSE)>>),
     Message("tool", <<TextContent("note"), ToolResultContent(2, "BODY", TRUE)>>)}

PrunerSlots ==
    [msg : PrunerMessages, Tokens : {3, 5},
     flags : {<<FALSE, "">>, <<TRUE, "">>, <<TRUE, "file_read">>, <<TRUE, "bash">>}]

PrunerInput(slots) ==
    [messages     |-> [j \in 1..Len(slots) |-> slots[j].msg],
     tokenInfo    |-> [j \in 1..Len(slots) |->
                         [TokenInfoRow(j - 1, slots[j].msg)
                            EXCEPT !.Tokens = slots[j].Tokens,
                                   !.IsPrunable = slots[j].flags[1],
                                   !.ToolName = slots[j].flags[2]]],
     totalTokens  |-> SumSeq([j \in 1..Len(slots) |-> slots[j].Tokens]),
     systemTokens |-> 0]

PrunerInputs ==
    UNION {{PrunerInput(slots) : slots \in [1..n -> PrunerSlots]} : n \in 0..MaxPruneLen}

\* Messages handed to Memory on its own: a user text, a tool message, and a
\* user message that carries a tool result.
MemoryMessages ==
    {Message("user", <<TextContent("hi")>>),
     Message("tool", <<ToolResultContent(1, "BODY", FALSE)>>),
     Message("user", <<ToolResultContent(2, "BODY BODY", FALSE)>>)}

\* The lists a caller hands to ReplaceMessages.
MemoryLists ==
    UNION {[1..n -> MemoryMessages] : n \in 0..MaxReplaceLen}

\* The values handed to SetSystemTokens.
SystemTokenCounts == {0, 7}

\* The block a caller writes into a message it got from GetMessages.
CallerBlock == TextContent("overwritten")

\* What PrepareContext is handed when its events are looked at: up to three
\* messages with rows of 3 or 5 tokens, under a limit of 10.
EmitSlots ==
    [msg : {Message("user", <<TextContent("hi")>>),
            Message("tool", <<ToolResultContent(1, "BODY", FALSE)>>)},
     Tokens : {3, 5}, flags : {<<FALSE, "">>, <<TRUE, "bash">>}]

EmitInputs ==
    UNION {{PrunerInput(slots) : slots \in [1..n -> EmitSlots]} : n \in 0..MaxPruneLen}

\* Manager.eventChan: nil, with room, full.
EventChans ==
    {NilEventChan, EventChanOf(EventChanCap, <<>>), EventChanOf(EventChanCap, <<"warning">>)}

\* No PrepareContext call is under way; n counts the calls made.
NoCall == [pc |-> "idle", n |-> 0, r |-> [messages |-> <<>>, err |-> FALSE, event |-> "none", chats |-> 0]]

\* The goroutines that call AddMessage, or RecordUsage.
Threads == {1, 2}

\* The Budgets explored: max_tokens, reserve and model context size such that
\* either limit is the smaller, the model size is unset, and the effective
\* limit is 0; prices 3 and 15 per million tokens.
BudgetInputs ==
    {SetPricing(NewBudget(maxTokens, reserve, size), 3, 15) :
        maxTokens \in {100, 200}, reserve \in {0, 100}, size \in {0, 150}}

ModelContextSizes == {0, 50, 150}

\* The arguments of GetSnapshot: 0, 0.80 and 0.90 of the limits 50 and 100,
\* and the tokens next below.
CurrentTokenCounts == {0, 39, 40, 44, 45, 79, 80, 89, 90, 100}

\* The arguments of RecordUsage: input and output tokens.
UsageCalls == {<<1, 2>>, <<2, 1>>, <<3, 3>>}

\* A goroutine outside RecordUsage.
IdleRecorder == [pc |-> "idle", inputTokens |-> 0, outputTokens |-> 0]

NoSnapshot == [taken |-> FALSE]

\* A goroutine outside AddMessage, and inside it: its position, the message it
\* was called with and its local variable info.
IdleThread ==
    [pc |-> "idle", msg |-> Message("user", <<>>),
     info |-> TokenInfoRow(0, Message("user", <<>>))]

\* What the caller holds from GetMessages and GetTokenInfo; shared[k] tells
\* whether element k still has the Content array of Memory's message k.
NoSnap == [msgs |-> <<>>, shared |-> <<>>, info |-> <<>>]

\* The calls made so far: their number, the messages AddMessage was called
\* with, whether only AddMessage has written, whether a caller's write has
\* reached Memory's messages, and what the last call on Memory left stored.
NoHist ==
    [ops |-> 0, added |-> <<>>, pure |-> TRUE, wrote |-> FALSE,
     ret |-> <<<<>>, <<>>>>]

(***************************************************************************)
(* State                                                                   *)
(***************************************************************************)
VARIABLES
    mode,             \* which environment is explored, one of Modes
    contextManager,   \* Agent.contextManager: NoManager or its configuration
    confirmChanSet,   \* Agent.confirmChan != nil
    confirmFn,        \* Executor.confirmFn != nil
    settings,         \* Executor.settings: NoSettings or the allowed tool names
    settingsFile,     \* allowed tool names in .potus/settings.json
    memory,           \* Agent.memory
    turn,             \* number of ProcessMessage calls so far
    pc,               \* position of processLoop; "idle" when no loop runs
    i,                \* loop counter of processLoop
    ctxDone,          \* the ctx passed to ProcessMessage is cancelled
    sent,             \* history: events sent on this call's event channel since
                      \* the current iteration began, in order
    closed,           \* this call's event channel is closed
    confirmChan,      \* decisions buffered in the confirmation channel
    previewShown,     \* a ToolPreview awaits the user's answer
    messages,         \* local: the request's message list
    assistantMessage, \* local: the assistant message being assembled
    textBuffer,       \* local
    toolCalls,        \* local
    toolResults,      \* local
    provided,         \* history: chat events the provider sent this iteration
    execLog,          \* history: how Execute went for each call of this iteration
    chatCalls,        \* history: provider.Chat calls during this ProcessMessage
    loopChats,        \* history: of which issued by processLoop itself
    nextId,           \* provider: id of the next ToolUse
    prepareErr,       \* history: PrepareContext failed in the current iteration
    prepared,         \* history: the call of PrepareContext that built the pending
                      \* request: what it was given, the summary reply, its result
    exit,             \* history: how the last loop ended
    alwaysAllowed,    \* history: tools the user answered AlwaysAllow for
    apc,              \* adapter: position of streamResponse
    body,             \* history: the lines the adapter's scanner returned
    readErr,          \* history: the scanner stopped on a read error
    emitted,          \* events sent on the adapter's event channel
    currentToolCall,  \* openai local
    accumulatedArgs,  \* openai local
    eventChan,        \* tui: events buffered in this call's event channel
    tui,              \* tui: what the Model does about the event channel
    pruneOut,         \* pruner: the results of the Prune calls made so far
    mu,               \* memory: the thread holding Memory.mu for writing, or 0
    thr,              \* memory: each thread's position in AddMessage, its locals
    snap,             \* memory: the sequence a caller got from GetMessages
    hist,             \* memory: history of the calls made on the Memory
    budget,           \* budget: the Budget
    bmu,              \* budget: the thread holding Budget.mu for writing, or 0
    bthr,             \* budget: each thread's position in RecordUsage, its arguments
    usage,            \* budget: history of the RecordUsage calls made
    snapshot,         \* budget: what the last GetSnapshot call returned
    cmEvents,         \* emit: Manager.eventChan
    cmCall,           \* emit: the position of the PrepareContext call, its result
    shownCall,        \* history: id of the tool call whose ToolPreview was sent last
    answerFor         \* history: for each decision buffered in the confirmation
                      \* channel, the id of the tool call the user was answering

adapterVars == <<apc, body, readErr, emitted, currentToolCall, accumulatedArgs>>

tuiVars == <<eventChan, tui>>

budgetVars == <<budget, bmu, bthr, usage, snapshot>>

emitVars == <<cmEvents, cmCall>>

promptVars == <<shownCall, answerFor>>

quietVars == <<pruneOut, mu, thr, snap, hist, budgetVars, emitVars>>

harnessVars == <<quietVars, promptVars>>

vars == <<adapterVars, tuiVars, harnessVars, alwaysAllowed, mode, contextManager, confirmChanSet, confirmFn, settings, settingsFile,
          memory, turn, pc, i, ctxDone, sent, closed, confirmChan, previewShown,
          messages, assistantMessage, textBuffer, toolCalls, toolResults, provided,
          execLog, chatCalls, loopChats, nextId, prepareErr, prepared, exit>>

cfgVars == <<mode, contextManager, confirmChanSet>>

Manager(maxTokens, autoCompact, autoPrune) ==
    [present      |-> TRUE,
     budget       |-> [maxTokens |-> maxTokens, reserveForResponse |-> 0,
                       modelContextSize |-> 0],
     autoCompact  |-> autoCompact,
     autoPrune    |-> autoPrune,
     hasCompactor |-> TRUE,
     protected    |-> DefaultProtectedTools]

\* A nil *context.Manager.
NoManager == [Manager(0, FALSE, FALSE) EXCEPT !.present = FALSE]

Managers ==
    {NoManager} \cup {Manager(b, ac, TRUE) : b \in Budgets, ac \in BOOLEAN}

EmptyAssistant == Message("assistant", <<>>)

(***************************************************************************)
(* Agent events                                                            *)
(***************************************************************************)
EvTokenUpdate(m, cm) ==
    [Type |-> "token_update",
     CurrentTokens |-> GetSnapshot(cm.budget, GetTotalTokens(m)).CurrentContextTokens,
     AtWarning     |-> GetSnapshot(cm.budget, GetTotalTokens(m)).AtWarningLevel]

EvError(cause) == [Type |-> "error", Error |-> cause]

EvContextUpdate == [Type |-> "context_update"]

EvTextDelta(d) == [Type |-> "text_delta", Content |-> d]

EvToolCall(tu) == [Type |-> "tool_call", ToolUse |-> tu]

EvMessageDone == [Type |-> "message_done"]

EvToolPreview(name) == [Type |-> "tool_preview", Name |-> name]

EvToolResult(tr) == [Type |-> "tool_result", ToolResult |-> tr]

\* emitTokenUpdate: sends nothing when there is no context manager.
emitTokenUpdate(ch, cm, m) ==
    IF ~cm.present THEN ch ELSE Append(ch, EvTokenUpdate(m, cm))

(***************************************************************************)
(* Initial state: agent.New                                                *)
(***************************************************************************)
InitIn(modes) ==
    /\ mode \in modes
    /\ contextManager \in (CASE mode \in Adapters \cup {"exec", "tui", "memory"} -> {NoManager}
                             [] mode = "pruner" ->
                                  {Manager(100, FALSE, TRUE),
                                   [Manager(100, FALSE, TRUE)
                                      EXCEPT !.protected = @ \cup {"bash"}]}
                             [] mode = "emit" -> {Manager(10, ac, TRUE) : ac \in BOOLEAN}
                             [] mode = "prune" -> {Manager(b, FALSE, TRUE) : b \in Budgets}
                             [] OTHER          -> Managers)
    /\ confirmChanSet \in (CASE mode = "exec" -> BOOLEAN
                             [] mode = "tui"  -> {TRUE}
                             [] OTHER         -> {FALSE})
    /\ settings \in (CASE mode = "tui"   -> {Settings({}), Settings({"bash"})}
                       [] confirmChanSet -> {NoSettings, Settings({"bash"})}
                       [] OTHER          -> {NoSettings})
    /\ settingsFile = settings.Permissions
    /\ confirmFn = FALSE
    /\ memory \in (CASE mode = "pruner" -> PrunerInputs
                     [] mode = "emit"   -> EmitInputs
                     [] OTHER           -> {NewMemory})
    /\ turn = 0
    /\ pc = "idle"
    /\ i = 0
    /\ ctxDone = FALSE
    /\ sent = <<>>
    /\ closed = FALSE
    /\ confirmChan = <<>>
    /\ previewShown = FALSE
    /\ messages = <<>>
    /\ assistantMessage = EmptyAssistant
    /\ textBuffer = ""
    /\ toolCalls = <<>>
    /\ toolResults = <<>>
    /\ provided = <<>>
    /\ execLog = <<>>
    /\ chatCalls = 0
    /\ loopChats = 0
    /\ nextId = 1
    /\ prepareErr = FALSE
    /\ prepared = NoPrepared
    /\ exit = "none"
    /\ alwaysAllowed = {}
    /\ apc = IF mode \in Adapters THEN "start" ELSE "none"
    /\ body = <<>>
    /\ readErr = FALSE
    /\ emitted = <<>>
    /\ currentToolCall = NoToolCall
    /\ accumulatedArgs = ""
    /\ eventChan = <<>>
    /\ tui = IF mode = "tui" THEN "idle" ELSE "off"
    /\ pruneOut = <<>>
    /\ mu = 0
    /\ thr = [t \in Threads |-> IdleThread]
    /\ snap = NoSnap
    /\ hist = NoHist
    /\ budget \in (IF mode = "budget" THEN BudgetInputs ELSE {NewBudget(0, 0, 0)})
    /\ bmu = 0
    /\ bthr = [t \in Threads |-> IdleRecorder]
    /\ usage = <<>>
    /\ snapshot = NoSnapshot
    /\ cmEvents \in (IF mode = "emit" THEN EventChans ELSE {NilEventChan})
    /\ cmCall = NoCall
    /\ shownCall = 0
    /\ answerFor = <<>>

Init == InitIn(Modes)

(***************************************************************************)
(* What the environment may do                                             *)
(***************************************************************************)
NumProvided(kind) == Cardinality({j \in 1..Len(provided) : provided[j].kind = kind})

StreamDone == NumProvided("message_done") > 0

TurnLimit ==
    CASE mode = "deep"     -> MaxTurns
      [] mode \in Adapters -> 0
      [] OTHER             -> 1

CanToolUse(name) ==
    /\ ~StreamDone
    /\ CASE mode = "stream" -> name = "file_read" /\ nextId <= MaxCalls
         [] mode = "exec"   -> nextId <= MaxCalls /\ NumProvided("text_delta") = 0
         [] mode = "tui"    -> /\ nextId <= MaxCalls
                               /\ NumProvided("tool_use") < 1
                               /\ NumProvided("text_delta") = 0
         [] mode = "prune"  -> /\ name = "bash"
                               /\ NumProvided("tool_use") < 1
                               /\ nextId <= MaxCalls + 1
         [] OTHER           -> name = "file_read" /\ NumProvided("tool_use") < 1

CanTextDelta == mode \in {"stream", "tui"} /\ ~StreamDone /\ NumProvided("text_delta") < MaxDeltas

CanClose == mode \in {"stream", "tui"} \/ StreamDone

\* The caller cancels while tool calls are queued or awaiting confirmation.
CanCancel == mode = "exec" /\ pc \in {"exec", "confirm"}

\* A provider handed a cancelled ctx fails the request.
CanChatOpen == ~ctxDone

CanStreamError == mode = "stream" /\ ~StreamDone

\* In "exec" the provider fails only on a cancelled ctx.
CanChatFail == mode # "exec" \/ ctxDone

ToolOutcomes ==
    CASE mode = "exec"  -> {"ok", "fail", "error"}
      [] mode = "prune" -> {"ok", "fail"}
      [] OTHER          -> {"ok"}

ToolOutputs == IF mode = "prune" THEN {"BODY", LongOutput} ELSE {"BODY"}

(***************************************************************************)
(* processLoop, step by step                                               *)
(***************************************************************************)
\* Variant: a failed PrepareContext is swallowed, no Error event is sent.
ApplyPreparedSilent(m, msgs, cm, ch, r) ==
    IF ~r.err /\ Len(r.messages) # Len(msgs)
    THEN LET replaced == ReplaceMessages(m, r.messages)
         IN  [memory |-> replaced, messages |-> r.messages,
              sent |-> emitTokenUpdate(Append(ch, EvContextUpdate), cm, replaced)]
    ELSE [memory |-> m, messages |-> msgs, sent |-> ch]

\* Lines 166-183: what the loop does with the result r of PrepareContext,
\* given the snapshot msgs it took of Memory.
ApplyPrepared(m, msgs, cm, ch, r) ==
    IF r.err
    THEN [memory |-> m, messages |-> msgs,
          sent |-> Append(ch, EvError("context management failed"))]
    ELSE IF Len(r.messages) # Len(msgs)
    THEN LET replaced == ReplaceMessages(m, r.messages)
         IN  [memory |-> replaced, messages |-> r.messages,
              sent |-> emitTokenUpdate(Append(ch, EvContextUpdate), cm, replaced)]
    ELSE [memory |-> m, messages |-> msgs, sent |-> ch]

\* Lines 221-226 and 237-242: flush the buffered text into a text block.
Flush(am, tb) ==
    IF tb # "" THEN [am EXCEPT !.Content = Append(@, TextContent(tb))] ELSE am

\* Variant: the results are forwarded as events but never committed.
CommitToolsSkipped(m, results) == m

\* Lines 293-300: the tool-role message committed after the calls.
CommitTools(m, results) == AddMessage(m, ToolMessage(results))

\* Variant: the loop condition is off by one.
LoopContinuesInclusive(n) == n <= MaxToolIterations

\* Line 162: the loop condition.
LoopContinues(n) == n < MaxToolIterations

CurrentCall == toolCalls[Len(toolResults) + 1]

\* What is recorded of one Execute call: the call, what the executor saw when
\* it began (always-allow record, confirmation function), the reply it read,
\* whether tool.Execute was invoked, the ctx at that moment, and how it ended.
ExecRecord(call, decision, invoked, outcome) ==
    [ID |-> call.ID, Name |-> call.Name, allowed |-> IsAllowed(settings, call.Name),
     confirmFn |-> confirmFn, decision |-> decision, invoked |-> invoked,
     ctxDone |-> ctxDone, outcome |-> outcome]

\* ProcessMessage and the head of processLoop (lines 131-160).
\* The events a step appended to the channel whose history was old.
Sends(old, new) == SubSeq(new, Len(old) + 1, Len(new))

\* The channel's buffer after the events are sent. Only the "tui" environment
\* has a consumer that may lag behind; elsewhere every event is taken at once.
Deliver(ch, events) == IF mode = "tui" THEN ch \o events ELSE ch

ProcessMessage(text) ==
    /\ pc = "idle"
    /\ turn < TurnLimit
    /\ turn' = turn + 1
    /\ confirmFn' = (confirmFn \/ confirmChanSet)
    /\ memory' = AddUserMessage(memory, text)
    /\ sent' = emitTokenUpdate(<<>>, contextManager, memory')
    /\ closed' = FALSE
    /\ ctxDone' = FALSE
    /\ i' = 0
    /\ pc' = "loop"
    /\ messages' = <<>>
    /\ assistantMessage' = EmptyAssistant
    /\ textBuffer' = ""
    /\ toolCalls' = <<>>
    /\ toolResults' = <<>>
    /\ provided' = <<>>
    /\ execLog' = <<>>
    /\ chatCalls' = 0
    /\ loopChats' = 0
    /\ prepareErr' = FALSE
    /\ prepared' = NoPrepared
    /\ exit' = "none"
    /\ eventChan' = Deliver(<<>>, sent')
    /\ tui' = IF mode = "tui" THEN "reading" ELSE tui
    /\ UNCHANGED <<cfgVars, adapterVars, harnessVars, alwaysAllowed, settings, settingsFile,
                   confirmChan, previewShown, nextId>>

\* Variant: the close is not deferred, the exit at the cap leaves the channel
\* open.
LoopExitLeavesOpen ==
    /\ pc = "loop"
    /\ ~LoopContinues(i)
    /\ pc' = "idle"
    /\ exit' = "cap"
    /\ UNCHANGED <<cfgVars, adapterVars, harnessVars, tuiVars, alwaysAllowed, confirmFn, settings, settingsFile, memory, turn, i, ctxDone,
                   sent, closed, confirmChan, previewShown, messages, assistantMessage,
                   textBuffer, toolCalls, toolResults, provided, execLog, chatCalls,
                   loopChats, nextId, prepareErr, prepared>>

\* The loop condition fails: processLoop returns, the deferred close runs.
LoopExit ==
    /\ pc = "loop"
    /\ ~LoopContinues(i)
    /\ closed' = TRUE
    /\ pc' = "idle"
    /\ exit' = "cap"
    /\ UNCHANGED <<cfgVars, adapterVars, harnessVars, tuiVars, alwaysAllowed, confirmFn, settings, settingsFile, memory, turn, i, ctxDone,
                   sent, confirmChan, previewShown, messages, assistantMessage,
                   textBuffer, toolCalls, toolResults, provided, execLog, chatCalls,
                   loopChats, nextId,
                   prepareErr, prepared>>

\* Lines 163-192: snapshot Memory, run the context manager, build the request.
Prepare ==
    /\ pc = "loop"
    /\ LoopContinues(i)
    /\ pc' = "chat"
    /\ IF ~contextManager.present
       THEN /\ messages' = GetMessages(memory)
            /\ sent' = <<>>
            /\ prepareErr' = FALSE
            /\ prepared' = NoPrepared
            /\ UNCHANGED <<memory, chatCalls>>
       ELSE \E reply \in RepliesFor(GetMessages(memory)) :
            \E summary \in {generateSummary(reply)} :
            \E r \in {PrepareContext(contextManager, GetMessages(memory),
                                      memory.tokenInfo, summary)} :
            \E a \in {ApplyPrepared(memory, GetMessages(memory), contextManager,
                                     <<>>, r)} :
               /\ memory' = a.memory
               /\ messages' = a.messages
               /\ sent' = a.sent
               /\ prepareErr' = r.err
               /\ prepared' = Prepared(GetMessages(memory),
                                       IF r.chats = 0 THEN NoReply ELSE reply, r)
               /\ chatCalls' = chatCalls + r.chats
    /\ eventChan' = Deliver(eventChan, sent')
    /\ UNCHANGED <<cfgVars, adapterVars, harnessVars, tui, alwaysAllowed, confirmFn, settings, settingsFile, turn, i, ctxDone, closed,
                   confirmChan, previewShown, assistantMessage, textBuffer, toolCalls,
                   toolResults, provided, execLog, loopChats, nextId,
                   exit>>

\* Lines 194-201: provider.Chat returns an error.
ChatFail ==
    /\ pc = "chat"
    /\ CanChatFail
    /\ chatCalls' = chatCalls + 1
    /\ loopChats' = loopChats + 1
    /\ sent' = Append(sent, EvError("failed to call provider"))
    /\ closed' = TRUE
    /\ pc' = "idle"
    /\ exit' = "chat_error"
    /\ prepared' = NoPrepared
    /\ eventChan' = Deliver(eventChan, Sends(sent, sent'))
    /\ UNCHANGED <<cfgVars, adapterVars, harnessVars, tui, alwaysAllowed, confirmFn, settings, settingsFile, memory, turn, i, ctxDone,
                   confirmChan, previewShown, messages, assistantMessage, textBuffer,
                   toolCalls, toolResults, provided, execLog, nextId,
                   prepareErr>>

\* Lines 194-209: provider.Chat returns a stream.
ChatOpen ==
    /\ pc = "chat"
    /\ CanChatOpen
    /\ chatCalls' = chatCalls + 1
    /\ loopChats' = loopChats + 1
    /\ assistantMessage' = EmptyAssistant
    /\ textBuffer' = ""
    /\ toolCalls' = <<>>
    /\ provided' = <<>>
    /\ pc' = "stream"
    /\ prepared' = NoPrepared
    /\ UNCHANGED <<cfgVars, adapterVars, harnessVars, tuiVars, alwaysAllowed, confirmFn, settings, settingsFile, memory, turn, i, ctxDone,
                   sent, closed, confirmChan, previewShown, messages, toolResults,
                   execLog, nextId, exit,
                   prepareErr>>

\* Variant: a TextDelta without text is buffered but not forwarded.
StreamTextDeltaSkipsEmpty(d) ==
    /\ pc = "stream"
    /\ CanTextDelta
    /\ provided' = Append(provided, Provided("text_delta", 0, d))
    /\ textBuffer' = textBuffer \o d
    /\ sent' = IF d = "" THEN sent ELSE Append(sent, EvTextDelta(d))
    /\ eventChan' = Deliver(eventChan, Sends(sent, sent'))
    /\ UNCHANGED <<cfgVars, adapterVars, harnessVars, tui, alwaysAllowed, confirmFn, settings, settingsFile,
                   memory, turn, pc, i,
                   ctxDone, closed, confirmChan, previewShown, messages,
                   assistantMessage, toolCalls, toolResults, execLog, chatCalls,
                   loopChats, nextId, exit, prepareErr, prepared>>

\* Lines 213-218.
StreamTextDelta(d) ==
    /\ pc = "stream"
    /\ CanTextDelta
    /\ provided' = Append(provided, Provided("text_delta", 0, d))
    /\ textBuffer' = textBuffer \o d
    /\ sent' = Append(sent, EvTextDelta(d))
    /\ eventChan' = Deliver(eventChan, Sends(sent, sent'))
    /\ UNCHANGED <<cfgVars, adapterVars, harnessVars, tui, alwaysAllowed, confirmFn, settings, settingsFile, memory, turn, pc, i,
                   ctxDone, closed, confirmChan, previewShown, messages,
                   assistantMessage, toolCalls, toolResults, execLog, chatCalls,
                   loopChats, nextId, exit,
                   prepareErr, prepared>>

\* Lines 220-234.
StreamToolUse(name) ==
    /\ pc = "stream"
    /\ CanToolUse(name)
    /\ LET tu == ToolUseContent(nextId, name, "{}")
       IN  /\ assistantMessage' =
                [Flush(assistantMessage, textBuffer) EXCEPT !.Content = Append(@, tu)]
           /\ toolCalls' = Append(toolCalls, tu)
           /\ sent' = Append(sent, EvToolCall(tu))
    /\ textBuffer' = ""
    /\ provided' = Append(provided, Provided("tool_use", nextId, ""))
    /\ nextId' = nextId + 1
    /\ eventChan' = Deliver(eventChan, Sends(sent, sent'))
    /\ UNCHANGED <<cfgVars, adapterVars, harnessVars, tui, alwaysAllowed, confirmFn, settings, settingsFile, memory, turn, pc, i,
                   ctxDone, closed, confirmChan, previewShown, messages, toolResults,
                   execLog, chatCalls, loopChats, exit,
                   prepareErr, prepared>>

\* Lines 236-251.
StreamMessageDone ==
    /\ pc = "stream"
    /\ ~StreamDone
    /\ provided' = Append(provided, Provided("message_done", 0, ""))
    /\ assistantMessage' = Flush(assistantMessage, textBuffer)
    /\ textBuffer' = ""
    /\ sent' = Append(sent, EvMessageDone)
    /\ eventChan' = Deliver(eventChan, Sends(sent, sent'))
    /\ UNCHANGED <<cfgVars, adapterVars, harnessVars, tui, alwaysAllowed, confirmFn, settings, settingsFile, memory, turn, pc, i,
                   ctxDone, closed, confirmChan, previewShown, messages, toolCalls,
                   toolResults, execLog, chatCalls, loopChats, nextId,
                   exit,
                   prepareErr, prepared>>

\* Variant: the Error case breaks out of the switch instead of returning, so
\* the partial assistant message is committed before the loop ends.
StreamErrorBreaks ==
    /\ pc = "stream"
    /\ CanStreamError
    /\ provided' = Append(provided, Provided("error", 0, ""))
    /\ sent' = Append(sent, EvError("stream"))
    /\ memory' = AddMessage(memory, assistantMessage)
    /\ closed' = TRUE
    /\ pc' = "idle"
    /\ exit' = "stream_error"
    /\ eventChan' = Deliver(eventChan, Sends(sent, sent'))
    /\ UNCHANGED <<cfgVars, adapterVars, harnessVars, tui, alwaysAllowed, confirmFn, settings, settingsFile, turn, i, ctxDone,
                   confirmChan, previewShown, messages, assistantMessage, textBuffer,
                   toolCalls, toolResults, execLog, chatCalls, loopChats, nextId,
                   prepareErr, prepared>>

\* Lines 253-258: an Error event in the stream ends the loop.
StreamError ==
    /\ pc = "stream"
    /\ CanStreamError
    /\ provided' = Append(provided, Provided("error", 0, ""))
    /\ sent' = Append(sent, EvError("stream"))
    /\ closed' = TRUE
    /\ pc' = "idle"
    /\ exit' = "stream_error"
    /\ eventChan' = Deliver(eventChan, Sends(sent, sent'))
    /\ UNCHANGED <<cfgVars, adapterVars, harnessVars, tui, alwaysAllowed, confirmFn, settings, settingsFile, memory, turn, i, ctxDone,
                   confirmChan, previewShown, messages, assistantMessage, textBuffer,
                   toolCalls, toolResults, execLog, chatCalls, loopChats, nextId,
                   prepareErr, prepared>>

\* Lines 260-269: the stream is closed; commit the assistant message.
StreamClose ==
    /\ pc = "stream"
    /\ CanClose
    /\ memory' = AddMessage(memory, assistantMessage)
    /\ sent' = emitTokenUpdate(sent, contextManager, memory')
    /\ IF Len(toolCalls) = 0
       THEN /\ closed' = TRUE
            /\ pc' = "idle"
            /\ exit' = "no_tools"
            /\ UNCHANGED <<toolResults, execLog>>
       ELSE /\ pc' = "exec"
            /\ toolResults' = <<>>
            /\ execLog' = <<>>
            /\ UNCHANGED <<closed, exit>>
    /\ eventChan' = Deliver(eventChan, Sends(sent, sent'))
    /\ UNCHANGED <<cfgVars, adapterVars, harnessVars, tui, alwaysAllowed, confirmFn, settings, settingsFile, turn, i, ctxDone,
                   confirmChan, previewShown, messages, assistantMessage, textBuffer,
                   toolCalls, provided, chatCalls, loopChats, nextId,
                   prepareErr, prepared>>

(***************************************************************************)
(* Executor.Execute, called by the loop for each queued call (271-290)     *)
(***************************************************************************)
Decisions == {"approve", "deny", "always_allow"}

\* Variant: the switch on the decision has no Deny case.
ProceedsAlways(decision) == TRUE

\* executor.go 69-77: the switch on the decision; only Deny stops the call.
Proceeds(decision) == decision # "deny"

\* executor.go 60: the gate in front of the confirmation.
AsksConfirmation(s, fn, name) == needsConfirmation(s, name) /\ fn

\* agent.go 273-290: wrap the outcome, queue it and forward it.
FinishCall(rec, outcome, output) ==
    LET toolResult == ToolResultFor(CurrentCall, outcome, output)
    IN  /\ toolResults' = Append(toolResults, toolResult)
        /\ sent' = Append(sent, EvToolResult(toolResult))
        /\ execLog' = Append(execLog, rec)
        /\ pc' = IF Len(toolResults) + 1 = Len(toolCalls) THEN "commit" ELSE "exec"

\* executor.go 55-58: the registry does not know the tool.
ExecNotFound ==
    /\ pc = "exec"
    /\ CurrentCall.Name \notin Registered
    /\ FinishCall(ExecRecord(CurrentCall, "none", FALSE, "not_found"),
                  "not_found", "")
    /\ eventChan' = Deliver(eventChan, Sends(sent, sent'))
    /\ UNCHANGED <<cfgVars, adapterVars, harnessVars, tui, alwaysAllowed, confirmFn, settings, settingsFile, memory, turn, i, ctxDone,
                   closed, confirmChan, previewShown, messages, assistantMessage,
                   textBuffer, toolCalls, provided, chatCalls, loopChats, nextId, exit,
                   prepareErr, prepared>>

\* executor.go 60-64 and agent.go 142-149: the preview is sent, then the
\* confirmation function blocks in its select.
ExecAskConfirm ==
    /\ pc = "exec"
    /\ CurrentCall.Name \in Registered
    /\ AsksConfirmation(settings, confirmFn, CurrentCall.Name)
    /\ sent' = Append(sent, EvToolPreview(CurrentCall.Name))
    /\ previewShown' = TRUE
    /\ shownCall' = CurrentCall.ID
    /\ pc' = "confirm"
    /\ eventChan' = Deliver(eventChan, Sends(sent, sent'))
    /\ UNCHANGED <<cfgVars, adapterVars, quietVars, answerFor, tui, alwaysAllowed, confirmFn, settings, settingsFile, memory, turn, i, ctxDone,
                   closed, confirmChan, messages, assistantMessage, textBuffer,
                   toolCalls, toolResults, provided, execLog, chatCalls, loopChats,
                   nextId, exit,
                   prepareErr, prepared>>

\* executor.go 60, 80-85: no confirmation is asked; the tool runs.
ExecDirect(outcome, output) ==
    /\ pc = "exec"
    /\ CurrentCall.Name \in Registered
    /\ ~AsksConfirmation(settings, confirmFn, CurrentCall.Name)
    /\ FinishCall(ExecRecord(CurrentCall, "none", TRUE, outcome),
                  outcome, output)
    /\ eventChan' = Deliver(eventChan, Sends(sent, sent'))
    /\ UNCHANGED <<cfgVars, adapterVars, harnessVars, tui, alwaysAllowed, confirmFn, settings, settingsFile, memory, turn, i, ctxDone,
                   closed, confirmChan, previewShown, messages, assistantMessage,
                   textBuffer, toolCalls, provided, chatCalls, loopChats, nextId, exit,
                   prepareErr, prepared>>

\* executor.go 80: tool.Execute panics. Neither Execute nor processLoop
\* recovers: the deferred close of the event channel runs while the panic
\* unwinds the loop's goroutine, then the program ends.
CanPanic == mode = "exec"

ExecDirectPanics ==
    /\ CanPanic
    /\ pc = "exec"
    /\ CurrentCall.Name \in Registered
    /\ ~AsksConfirmation(settings, confirmFn, CurrentCall.Name)
    /\ execLog' = Append(execLog, ExecRecord(CurrentCall, "none", TRUE, "panic"))
    /\ closed' = TRUE
    /\ pc' = "crashed"
    /\ exit' = "panic"
    /\ UNCHANGED <<cfgVars, adapterVars, harnessVars, tuiVars, alwaysAllowed, confirmFn, settings,
                   settingsFile, memory, turn, i, ctxDone, sent, confirmChan,
                   previewShown, messages, assistantMessage, textBuffer, toolCalls,
                   toolResults, provided, chatCalls, loopChats, nextId, prepareErr,
                   prepared>>

\* agent.go 151-152 and executor.go 69-85: a decision is received.
ConfirmRecv(outcome, output) ==
    /\ pc = "confirm"
    /\ confirmChan # <<>>
    /\ LET decision == Head(confirmChan)
       IN  /\ confirmChan' = Tail(confirmChan)
           /\ answerFor' = Tail(answerFor)
           /\ alwaysAllowed' = IF decision = "always_allow"
                               THEN alwaysAllowed \cup {CurrentCall.Name}
                               ELSE alwaysAllowed
           /\ IF Proceeds(decision)
              THEN /\ FinishCall(ExecRecord(CurrentCall, decision, TRUE, outcome),
                                 outcome, output)
                   /\ IF decision = "always_allow" /\ settings.present
                      THEN /\ settings' = SetAllow(settings, CurrentCall.Name)
                           /\ settingsFile' = Save(settings')
                      ELSE UNCHANGED <<settings, settingsFile>>
              ELSE /\ FinishCall(ExecRecord(CurrentCall, decision, FALSE, "deny"),
                                 "deny", "")
                   /\ UNCHANGED <<settings, settingsFile>>
    /\ eventChan' = Deliver(eventChan, Sends(sent, sent'))
    /\ UNCHANGED <<cfgVars, adapterVars, quietVars, shownCall, tui, confirmFn, memory, turn, i, ctxDone, closed, previewShown,
                   messages, assistantMessage, textBuffer, toolCalls, provided,
                   chatCalls, loopChats, nextId, exit,
                   prepareErr, prepared>>

\* agent.go 153-154 and executor.go 65-67: the select takes ctx.Done().
ConfirmCtxDone ==
    /\ pc = "confirm"
    /\ ctxDone
    /\ FinishCall(ExecRecord(CurrentCall, "ctx", FALSE, "ctx"), "ctx", "")
    /\ eventChan' = Deliver(eventChan, Sends(sent, sent'))
    /\ UNCHANGED <<cfgVars, adapterVars, harnessVars, tui, alwaysAllowed, confirmFn, settings, settingsFile, memory, turn, i, ctxDone,
                   closed, confirmChan, previewShown, messages, assistantMessage,
                   textBuffer, toolCalls, provided, chatCalls, loopChats, nextId, exit,
                   prepareErr, prepared>>

\* agent.go 293-302: commit the tool message and go round the loop.
CommitToolMessage ==
    /\ pc = "commit"
    /\ memory' = CommitTools(memory, toolResults)
    /\ sent' = emitTokenUpdate(sent, contextManager, memory')
    /\ i' = i + 1
    /\ pc' = "loop"
    /\ eventChan' = Deliver(eventChan, Sends(sent, sent'))
    /\ UNCHANGED <<cfgVars, adapterVars, harnessVars, tui, alwaysAllowed, confirmFn, settings, settingsFile, turn, ctxDone, closed,
                   confirmChan, previewShown, messages, assistantMessage, textBuffer,
                   toolCalls, toolResults, provided, execLog, chatCalls, loopChats,
                   nextId, exit,
                   prepareErr, prepared>>

(***************************************************************************)
(* The caller and the user                                                 *)
(***************************************************************************)
\* The caller cancels the ctx it passed to ProcessMessage.
Cancel ==
    /\ CanCancel
    /\ ~ctxDone
    /\ ctxDone' = TRUE
    /\ UNCHANGED <<cfgVars, adapterVars, harnessVars, tuiVars, alwaysAllowed, confirmFn, settings, settingsFile, memory, turn, pc, i,
                   sent, closed, confirmChan, previewShown, messages,
                   assistantMessage, textBuffer, toolCalls, toolResults, provided,
                   execLog, chatCalls, loopChats, nextId, exit,
                   prepareErr, prepared>>

\* The program is started again in the same work directory: LoadSettings reads
\* the settings file, agent.New builds a new agent with an empty Memory.
CanRestart == mode = "exec" /\ pc = "idle" /\ turn > 0 /\ settings.present

Restart ==
    /\ CanRestart
    /\ settings' = LoadSettings(settingsFile)
    /\ confirmFn' = FALSE
    /\ memory' = NewMemory
    /\ turn' = 0
    /\ i' = 0
    /\ ctxDone' = FALSE
    /\ sent' = <<>>
    /\ closed' = FALSE
    /\ confirmChan' = <<>>
    /\ previewShown' = FALSE
    /\ messages' = <<>>
    /\ assistantMessage' = EmptyAssistant
    /\ textBuffer' = ""
    /\ toolCalls' = <<>>
    /\ toolResults' = <<>>
    /\ provided' = <<>>
    /\ execLog' = <<>>
    /\ chatCalls' = 0
    /\ loopChats' = 0
    /\ prepareErr' = FALSE
    /\ prepared' = NoPrepared
    /\ exit' = "none"
    /\ shownCall' = 0
    /\ answerFor' = <<>>
    /\ UNCHANGED <<cfgVars, adapterVars, quietVars, tuiVars, alwaysAllowed, settingsFile, pc, nextId>>

\* The user answers the preview on screen (tui Update, KeyMsg with
\* pendingPreview).
SendDecision(d) ==
    /\ IF mode = "tui" THEN tui = "preview" ELSE previewShown
    /\ Len(confirmChan) < ConfirmChanCap
    /\ confirmChan' = Append(confirmChan, d)
    /\ answerFor' = Append(answerFor, shownCall)
    /\ previewShown' = FALSE
    /\ tui' = IF mode = "tui" THEN "reading" ELSE tui
    /\ UNCHANGED <<cfgVars, adapterVars, quietVars, shownCall, eventChan, alwaysAllowed, confirmFn, settings, settingsFile, memory, turn, pc, i,
                   ctxDone, sent, closed, messages, assistantMessage, textBuffer,
                   toolCalls, toolResults, provided, execLog, chatCalls, loopChats,
                   nextId, exit,
                   prepareErr, prepared>>

(***************************************************************************)
(* tui.Model: the reader of the event channel                              *)
(***************************************************************************)
loopVars == <<cfgVars, harnessVars, alwaysAllowed, confirmFn, settings, settingsFile, memory, turn, pc, i, ctxDone,
               sent, closed, confirmChan, previewShown, messages, assistantMessage,
               textBuffer, toolCalls, toolResults, provided, execLog, chatCalls,
               loopChats, nextId, prepareErr, prepared, exit>>

agentVars == <<loopVars, tuiVars>>

\* handleAgentEvent: what the Model does after an event of the given type. On
\* a ToolPreview it issues no read until a key answers; on Error and on
\* MessageDone it sets its eventChan to nil and issues no read any more.
handleAgentEvent(type) ==
    CASE type = "tool_preview"               -> "preview"
      [] type \in {"error", "message_done"} -> "stopped"
      [] OTHER                               -> "reading"

\* readNextEvent returns: an event, or nothing from a closed channel.
TuiReceive ==
    /\ tui = "reading"
    /\ eventChan # <<>> \/ closed
    /\ IF eventChan = <<>>
       THEN /\ tui' = "ended"
            /\ UNCHANGED eventChan
       ELSE /\ tui' = handleAgentEvent(Head(eventChan).Type)
            /\ eventChan' = Tail(eventChan)
    /\ UNCHANGED <<loopVars, adapterVars>>

\* part_006 161-181: Enter with processingMsg false, which handleAgentEvent
\* left so at Error or MessageDone: the Model calls ProcessMessage for the next
\* input, and a second processLoop starts beside the first.
TuiSubmitNext ==
    /\ mode = "tui"
    /\ tui = "stopped"
    /\ tui' = "second"
    /\ UNCHANGED <<loopVars, adapterVars, eventChan>>

(***************************************************************************)
(* streamResponse of the adapter under exploration                         *)
(***************************************************************************)
Occurrences(line) == Cardinality({k \in 1..Len(body) : body[k] = line})

\* The server sends each kind of line once, text chunks up to MaxDeltas times.
CanLine(line) ==
    /\ Len(body) < MaxLines
    /\ Occurrences(line) < (IF line.kind = "data" /\ line.content # ""
                            THEN MaxDeltas ELSE 1)

\* Chat got a 200 response and started streamResponse.
AdapterStart ==
    /\ apc = "start"
    /\ emitted' = BeforeLoop(mode)
    /\ apc' = "scan"
    /\ UNCHANGED <<agentVars, body, readErr, currentToolCall, accumulatedArgs>>

\* scanner.Scan() returned a line.
ScanLine(line) ==
    /\ apc = "scan"
    /\ CanLine(line)
    /\ body' = Append(body, line)
    /\ \E r \in {streamLine(mode, emitted, currentToolCall, accumulatedArgs, line)} :
          /\ emitted' = r.emitted
          /\ currentToolCall' = r.cur
          /\ accumulatedArgs' = r.args
          /\ apc' = IF r.closed THEN "closed" ELSE "scan"
    /\ UNCHANGED <<agentVars, readErr>>

\* scanner.Scan() returned false: the body ended, cleanly or on a read error.
ScanEnds(err) ==
    /\ apc = "scan"
    /\ readErr' = err
    /\ emitted' = AfterLoop(mode, emitted, err)
    /\ apc' = "closed"
    /\ UNCHANGED <<agentVars, body, currentToolCall, accumulatedArgs>>

Next ==
    \/ \E text \in UserTexts : ProcessMessage(text)
    \/ LoopExit
    \/ Prepare
    \/ ChatFail
    \/ ChatOpen
    \/ \E d \in TextDeltas : StreamTextDelta(d)
    \/ \E name \in ToolNames : StreamToolUse(name)
    \/ StreamMessageDone
    \/ StreamError
    \/ StreamClose
    \/ ExecNotFound
    \/ ExecAskConfirm
    \/ \E o \in ToolOutcomes, out \in ToolOutputs : ExecDirect(o, out)
    \/ ExecDirectPanics
    \/ \E o \in ToolOutcomes, out \in ToolOutputs : ConfirmRecv(o, out)
    \/ ConfirmCtxDone
    \/ CommitToolMessage
    \/ Cancel
    \/ \E d \in Decisions : SendDecision(d)
    \/ Restart
    \/ AdapterStart
    \/ \E line \in LinesOf(mode) : ScanLine(line)
    \/ \E err \in BOOLEAN : ScanEnds(err)

Spec == Init /\ [][Next]_vars

\* Everything but Memory and the variables of the calls made on it.
baseVars == <<cfgVars, adapterVars, tuiVars, promptVars, alwaysAllowed, confirmFn, settings,
              settingsFile, turn, pc, i, ctxDone, sent, closed, confirmChan,
              previewShown, messages, assistantMessage, textBuffer, toolCalls,
              toolResults, provided, execLog, chatCalls, loopChats, nextId,
              prepareErr, prepared, exit>>

restVars == <<baseVars, budgetVars, emitVars>>

\* Memory and the variables of the calls made on it and on Prune.
memoryVars == <<memory, pruneOut, mu, thr, snap, hist>>

\* Manager.PrepareContext's call of Prune (context_test.go 919), on its own.
ApplyPrune ==
    /\ mode = "pruner"
    /\ pruneOut = <<>>
    /\ pruneOut' = <<Prune(contextManager.protected, memory.messages, memory.tokenInfo)>>
    /\ UNCHANGED <<restVars, memory, mu, thr, snap, hist>>

\* Prune called on its own result, with the same rows.
PruneAgain ==
    /\ mode = "pruner"
    /\ Len(pruneOut) = 1
    /\ pruneOut' = Append(pruneOut, Prune(contextManager.protected, pruneOut[1], memory.tokenInfo))
    /\ UNCHANGED <<restVars, memory, mu, thr, snap, hist>>

PrunerInit == InitIn({"pruner"})

PrunerNext == ApplyPrune \/ PruneAgain

PrunerSpec == PrunerInit /\ [][PrunerNext]_vars

(***************************************************************************)
(* Memory called by several goroutines                                     *)
(***************************************************************************)
Stored(m) == <<GetMessages(m), GetTokenInfo(m)>>

CanCall == mode = "memory" /\ hist.ops < MaxOps

\* The sharing that ends when Memory takes new message arrays.
Unshared(s) == [s EXCEPT !.shared = [k \in 1..Len(s.msgs) |-> FALSE]]

\* AddMessage, line 41: m.mu.Lock().
AddLock(t, msg) ==
    /\ CanCall
    /\ thr[t].pc = "idle"
    /\ LockFree(mu)
    /\ mu' = t
    /\ thr' = [thr EXCEPT ![t] = [@ EXCEPT !.pc = "locked", !.msg = msg]]
    /\ hist' = [hist EXCEPT !.ops = @ + 1, !.added = Append(@, msg)]
    /\ UNCHANGED <<restVars, pruneOut, memory, snap>>

\* AddMessage, lines 44-52: tokens and info, from the length read here.
AddBuild(t) ==
    /\ mode = "memory"
    /\ thr[t].pc = "locked"
    /\ thr' = [thr EXCEPT ![t] = [@ EXCEPT !.pc = "built",
                  !.info = TokenInfoRow(Len(memory.messages), thr[t].msg)]]
    /\ UNCHANGED <<restVars, pruneOut, memory, mu, snap, hist>>

\* AddMessage, lines 54-56: the two appends and the sum.
AddAppend(t) ==
    /\ mode = "memory"
    /\ thr[t].pc = "built"
    /\ memory' = [memory EXCEPT !.messages    = Append(@, thr[t].msg),
                                !.tokenInfo   = Append(@, thr[t].info),
                                !.totalTokens = @ + thr[t].info.Tokens]
    /\ thr' = [thr EXCEPT ![t] = [@ EXCEPT !.pc = "appended"]]
    /\ hist' = [hist EXCEPT !.ret = Stored(memory')]
    /\ UNCHANGED <<restVars, pruneOut, mu, snap>>

\* AddMessage, line 42: the deferred m.mu.Unlock(), and the return.
AddUnlock(t) ==
    /\ mode = "memory"
    /\ thr[t].pc = "appended"
    /\ mu' = 0
    /\ thr' = [thr EXCEPT ![t] = IdleThread]
    /\ UNCHANGED <<restVars, pruneOut, memory, snap, hist>>

MemReplace(msgs) ==
    /\ CanCall
    /\ LockFree(mu)
    /\ memory' = ReplaceMessages(memory, msgs)
    /\ snap' = Unshared(snap)
    /\ hist' = [hist EXCEPT !.ops = @ + 1, !.pure = FALSE, !.ret = Stored(memory')]
    /\ UNCHANGED <<restVars, pruneOut, mu, thr>>

MemClear ==
    /\ CanCall
    /\ LockFree(mu)
    /\ memory' = Clear(memory)
    /\ snap' = Unshared(snap)
    /\ hist' = [hist EXCEPT !.ops = @ + 1, !.pure = FALSE, !.ret = Stored(memory')]
    /\ UNCHANGED <<restVars, pruneOut, mu, thr>>

MemSetSystemTokens(tokens) ==
    /\ CanCall
    /\ LockFree(mu)
    /\ memory' = SetSystemTokens(memory, tokens)
    /\ hist' = [hist EXCEPT !.ops = @ + 1]
    /\ UNCHANGED <<restVars, pruneOut, mu, thr, snap>>

\* GetMessages under the read lock: a new array of the message structs, each
\* with the Content slice of the message it was copied from.
MemGetMessages ==
    /\ CanCall
    /\ LockFree(mu)
    /\ snap' = [snap EXCEPT !.msgs = GetMessages(memory),
                            !.shared = [k \in 1..Len(memory.messages) |-> TRUE]]
    /\ hist' = [hist EXCEPT !.ops = @ + 1]
    /\ UNCHANGED <<restVars, pruneOut, memory, mu, thr>>

\* GetTokenInfo under the read lock: a new array of the rows, which hold
\* values only.
MemGetTokenInfo ==
    /\ CanCall
    /\ LockFree(mu)
    /\ snap' = [snap EXCEPT !.info = GetTokenInfo(memory)]
    /\ hist' = [hist EXCEPT !.ops = @ + 1]
    /\ UNCHANGED <<restVars, pruneOut, memory, mu, thr>>

\* The caller assigns a field of an element it was returned:
\* msgs[k].Content = []providers.ContentBlock{...}.
CallerSetsContent(k) ==
    /\ CanCall
    /\ k \in 1..Len(snap.msgs)
    /\ snap' = [snap EXCEPT !.msgs[k].Content = <<CallerBlock>>, !.shared[k] = FALSE]
    /\ hist' = [hist EXCEPT !.ops = @ + 1]
    /\ UNCHANGED <<restVars, pruneOut, memory, mu, thr>>

\* The caller assigns a row of the rows it was returned: info[k].Tokens = 0.
CallerSetsRow(k) ==
    /\ CanCall
    /\ k \in 1..Len(snap.info)
    /\ snap' = [snap EXCEPT !.info[k].Tokens = 0]
    /\ hist' = [hist EXCEPT !.ops = @ + 1]
    /\ UNCHANGED <<restVars, pruneOut, memory, mu, thr>>

\* The caller assigns a block of an element it was returned:
\* msgs[k].Content[b] = block, a write into the array the Content slice points
\* to, which is Memory's own as long as the slice is the copied one.
CallerWritesBlock(k, b) ==
    /\ CanCall
    /\ k \in 1..Len(snap.msgs)
    /\ b \in 1..Len(snap.msgs[k].Content)
    /\ snap' = [snap EXCEPT !.msgs[k].Content[b] = CallerBlock]
    /\ memory' = IF snap.shared[k]
                 THEN [memory EXCEPT !.messages[k].Content[b] = CallerBlock]
                 ELSE memory
    /\ hist' = [hist EXCEPT !.ops = @ + 1, !.wrote = @ \/ snap.shared[k]]
    /\ UNCHANGED <<restVars, pruneOut, mu, thr>>

MemoryInit == InitIn({"memory"})

MemoryNext ==
    \/ \E t \in Threads, msg \in MemoryMessages : AddLock(t, msg)
    \/ \E t \in Threads : AddBuild(t)
    \/ \E t \in Threads : AddAppend(t)
    \/ \E t \in Threads : AddUnlock(t)
    \/ \E msgs \in MemoryLists : MemReplace(msgs)
    \/ MemClear
    \/ \E tokens \in SystemTokenCounts : MemSetSystemTokens(tokens)
    \/ MemGetMessages
    \/ MemGetTokenInfo
    \/ \E k \in 1..MaxOps : CallerSetsContent(k)
    \/ \E k \in 1..MaxOps : CallerSetsRow(k)
    \/ \E k \in 1..MaxOps, b \in 1..2 : CallerWritesBlock(k, b)

MemorySpec == MemoryInit /\ [][MemoryNext]_vars

(***************************************************************************)
(* Budget called by several goroutines                                     *)
(***************************************************************************)
\* RecordUsage, line 69: b.mu.Lock().
RecordLock(t, inputTokens, outputTokens) ==
    /\ mode = "budget"
    /\ Len(usage) < MaxRecords
    /\ bthr[t].pc = "idle"
    /\ LockFree(bmu)
    /\ bmu' = t
    /\ bthr' = [bthr EXCEPT ![t] = [pc |-> "locked", inputTokens |-> inputTokens,
                                    outputTokens |-> outputTokens]]
    /\ usage' = Append(usage, <<inputTokens, outputTokens>>)
    /\ UNCHANGED <<baseVars, emitVars, memoryVars, budget, snapshot>>

\* RecordUsage, lines 72-77.
RecordAdd(t) ==
    /\ mode = "budget"
    /\ bthr[t].pc = "locked"
    /\ budget' = RecordUsage(budget, bthr[t].inputTokens, bthr[t].outputTokens)
    /\ bthr' = [bthr EXCEPT ![t].pc = "added"]
    /\ snapshot' = NoSnapshot
    /\ UNCHANGED <<baseVars, emitVars, memoryVars, bmu, usage>>

\* RecordUsage, line 70: the deferred b.mu.Unlock().
RecordUnlock(t) ==
    /\ mode = "budget"
    /\ bthr[t].pc = "added"
    /\ bmu' = 0
    /\ bthr' = [bthr EXCEPT ![t] = IdleRecorder]
    /\ UNCHANGED <<baseVars, emitVars, memoryVars, budget, usage, snapshot>>

BudgetUpdateModelContextSize(size) ==
    /\ mode = "budget"
    /\ LockFree(bmu)
    /\ budget' = UpdateModelContextSize(budget, size)
    /\ snapshot' = NoSnapshot
    /\ UNCHANGED <<baseVars, emitVars, memoryVars, bmu, bthr, usage>>

\* GetSnapshot under the read lock, with the Budget it was taken of; the
\* snapshot is kept until the Budget changes.
BudgetGetSnapshot(currentTokens) ==
    /\ mode = "budget"
    /\ LockFree(bmu)
    /\ snapshot' = [taken |-> TRUE, of |-> budget,
                    result |-> GetSnapshot(budget, currentTokens)]
    /\ UNCHANGED <<baseVars, emitVars, memoryVars, budget, bmu, bthr, usage>>

BudgetInit == InitIn({"budget"})

BudgetNext ==
    \/ \E t \in Threads, call \in UsageCalls : RecordLock(t, call[1], call[2])
    \/ \E t \in Threads : RecordAdd(t)
    \/ \E t \in Threads : RecordUnlock(t)
    \/ \E size \in ModelContextSizes : BudgetUpdateModelContextSize(size)
    \/ \E c \in CurrentTokenCounts : BudgetGetSnapshot(c)

BudgetSpec == BudgetInit /\ [][BudgetNext]_vars

(***************************************************************************)
(* The context manager's events                                            *)
(***************************************************************************)
\* PrepareContext up to its emitEvent call: the result is decided.
CallPrepareContext(summary) ==
    /\ mode = "emit"
    /\ cmCall.pc = "idle"
    /\ cmCall.n < MaxPrepares
    /\ \E r \in {PrepareContext(contextManager, memory.messages, memory.tokenInfo, summary)} :
         cmCall' = [pc |-> IF r.event = "none" THEN "returned" ELSE "emit",
                    n |-> cmCall.n + 1, r |-> r]
    /\ UNCHANGED <<baseVars, memoryVars, budgetVars, cmEvents>>

\* emitEvent, and the return that follows it.
ManagerEmit ==
    /\ mode = "emit"
    /\ cmCall.pc = "emit"
    /\ \E e \in {emitEvent(cmEvents, cmCall.r.event)} :
         /\ ~e.waits
         /\ cmEvents' = e.ch
    /\ cmCall' = [cmCall EXCEPT !.pc = "returned"]
    /\ UNCHANGED <<baseVars, memoryVars, budgetVars>>

\* The subscriber takes an event from the channel.
SubscriberReceives ==
    /\ mode = "emit"
    /\ cmEvents.buf # <<>>
    /\ cmEvents' = [cmEvents EXCEPT !.buf = Tail(@)]
    /\ UNCHANGED <<baseVars, memoryVars, budgetVars, cmCall>>

\* The caller has its result.
PrepareReturned ==
    /\ mode = "emit"
    /\ cmCall.pc = "returned"
    /\ cmCall' = [cmCall EXCEPT !.pc = "idle"]
    /\ UNCHANGED <<baseVars, memoryVars, budgetVars, cmEvents>>

EmitInit == InitIn({"emit"})

EmitNext ==
    \/ \E summary \in {[ok |-> TRUE, text |-> "SUM"]} : CallPrepareContext(summary)
    \/ ManagerEmit
    \/ SubscriberReceives
    \/ PrepareReturned

\* The goroutine that called PrepareContext runs; the subscriber may never
\* receive.
EmitSpec == EmitInit /\ [][EmitNext]_vars /\ WF_vars(ManagerEmit)

\* The agent driven by the terminal UI, which passes context.Background().
TuiInit == InitIn({"tui"})

TuiNext ==
    \/ \E text \in UserTexts : ProcessMessage(text)
    \/ TuiSubmitNext
    \/ Prepare
    \/ ChatFail
    \/ ChatOpen
    \/ \E d \in TextDeltas : StreamTextDelta(d)
    \/ \E name \in ToolNames : StreamToolUse(name)
    \/ StreamMessageDone
    \/ StreamClose
    \/ ExecNotFound
    \/ ExecAskConfirm
    \/ \E o \in ToolOutcomes, out \in ToolOutputs : ExecDirect(o, out)
    \/ \E o \in ToolOutcomes, out \in ToolOutputs : ConfirmRecv(o, out)
    \/ CommitToolMessage
    \/ TuiReceive
    \/ \E d \in Decisions : SendDecision(d)

(***************************************************************************)
(* Properties of the loop and of Memory                                    *)
(***************************************************************************)
\* The ids of the ToolUse blocks of the assistant messages before position k.
EarlierToolUseIDs(msgs, k) ==
    {msgs[a].Content[b].ID :
        <<a, b>> \in {<<a, b>> \in (1..(k - 1)) \X (1..Len(msgs)) :
                          /\ msgs[a].Role = "assistant"
                          /\ b <= Len(msgs[a].Content)
                          /\ msgs[a].Content[b].kind = "tool_use"}}

ToolResultsMatched(msgs) ==
    \A k \in 1..Len(msgs) : \A b \in 1..Len(msgs[k].Content) :
        msgs[k].Content[b].kind = "tool_result"
            => msgs[k].Content[b].ToolUseID \in EarlierToolUseIDs(msgs, k)

\* C1: in every Memory state the loop reaches, each ToolResult block's
\* tool_use_id is the id of a ToolUse block of an assistant message that
\* stands earlier in Memory.
C1_ToolResultsFollowToolUse == ToolResultsMatched(memory.messages)

\* ---------------------------------------------------------------------------
\* Confirmation (executor.go needsConfirmation, Execute)

\* The tools the executor guards with a confirmation.
GuardedTools == {"file_write", "file_edit", "file_delete", "bash"}

InToolPhase == pc \in {"exec", "confirm", "commit"}

\* Position in sent of the ToolResult event of the j-th call of the iteration.
ResultPos(j) ==
    CHOOSE p \in 1..Len(sent) :
        /\ sent[p].Type = "tool_result"
        /\ Cardinality({q \in 1..p : sent[q].Type = "tool_result"}) = j

\* A ToolPreview naming the j-th call's tool was sent during that call.
PreviewSentFor(j) ==
    \E q \in 1..Len(sent) :
        /\ sent[q].Type = "tool_preview"
        /\ sent[q].Name = execLog[j].Name
        /\ q < ResultPos(j)
        /\ (j > 1 => q > ResultPos(j - 1))

Guarded(rec) == rec.confirmFn /\ ~rec.allowed /\ rec.Name \in GuardedTools

\* C2: with a confirmation function installed and no always-allow record for
\* the tool, file_write, file_edit, file_delete and bash are invoked only after
\* a ToolPreview was sent for the call and the reply read was Approve or
\* AlwaysAllow; on Deny the tool is not invoked and the result is an error.
C2_GuardedToolsNeedApproval ==
    InToolPhase =>
        \A j \in 1..Len(execLog) :
            Guarded(execLog[j]) =>
                /\ execLog[j].invoked =>
                        /\ PreviewSentFor(j)
                        /\ execLog[j].decision \in {"approve", "always_allow"}
                /\ execLog[j].decision = "deny" =>
                        /\ ~execLog[j].invoked
                        /\ toolResults[j].IsError

C2_Witness ==
    /\ pc = "commit"
    /\ Len(execLog) = 2
    /\ Guarded(execLog[1]) /\ execLog[1].decision = "approve" /\ execLog[1].invoked
    /\ Guarded(execLog[2]) /\ execLog[2].decision = "deny"

\* C3: when the ctx is cancelled after a call's ToolCall event was sent and
\* before its tool starts, the tool's Execute is not invoked for that call.
\* (The ctx is cancelled only while calls are queued, so a record taken with
\* the ctx done is of a call announced before the cancellation.)
C3_NoToolRunsAfterCancel ==
    \A j \in 1..Len(execLog) : execLog[j].ctxDone => ~execLog[j].invoked

\* A cancelled ctx ends the confirmation wait without invoking the tool.
C3_CancelledWait ==
    \E j \in 1..Len(execLog) : execLog[j].ctxDone /\ execLog[j].outcome = "ctx"

\* ---------------------------------------------------------------------------
\* Tool results (agent.go 269-302)

NumResultEvents(id) ==
    Cardinality({q \in 1..Len(sent) :
                    sent[q].Type = "tool_result" /\ sent[q].ToolResult.ToolUseID = id})

ResultsWrapped ==
    InToolPhase =>
        /\ Len(toolResults) = Len(execLog)
        /\ Len(toolResults) <= Len(toolCalls)
        /\ (pc = "commit") = (Len(toolResults) = Len(toolCalls))
        /\ ~closed
        /\ \A j \in 1..Len(toolCalls) :
               NumResultEvents(toolCalls[j].ID) = IF j <= Len(toolResults) THEN 1 ELSE 0
        /\ \A j \in 1..Len(toolResults) :
               /\ toolResults[j].ToolUseID = toolCalls[j].ID
               /\ toolResults[j].IsError = (execLog[j].outcome # "ok")
               /\ sent[ResultPos(j)] = EvToolResult(toolResults[j])

\* The tool's Execute panicked.
Panicked == exit = "panic"

\* C4: every queued call, whether its execution ends as unknown tool, denied,
\* error returned, Success=false or success, gets exactly one ToolResult, with
\* is_error true iff the execution did not succeed, and the loop goes on to
\* the commit step instead of ending the turn.
C4_EveryCallGetsOneResult ==
    /\ []ResultsWrapped
    /\ [][(pc \in {"exec", "confirm"} /\ ~Panicked')
             => (pc' \in {"exec", "confirm", "commit"})]_vars

C4_Witness ==
    /\ pc = "commit"
    /\ \E j, k \in 1..Len(execLog) :
           /\ execLog[j].outcome = "fail" /\ toolResults[j].IsError
           /\ execLog[k].outcome = "ok" /\ ~toolResults[k].IsError

Last(seq) == seq[Len(seq)]

\* C5: the tool-role message with all results of an iteration is in Memory
\* before the next iteration builds its request, and that request's message
\* list holds those results.
C5_ResultsCommittedBeforeNextRequest ==
    (pc = "chat" /\ i > 0) =>
        /\ Last(memory.messages) = Message("tool", toolResults)
        /\ Last(messages) = Message("tool", toolResults)
        /\ Len(toolResults) = Len(toolCalls)

C5_Witness ==
    /\ pc = "chat"
    /\ i > 0
    /\ sent # <<>>
    /\ sent[1].Type = "context_update"

\* The ids of the ToolUse events the provider sent in this iteration, in order.
RECURSIVE ProvidedIDs(_)
ProvidedIDs(events) ==
    IF events = <<>> THEN <<>>
    ELSE IF Head(events).kind = "tool_use"
    THEN <<Head(events).ID>> \o ProvidedIDs(Tail(events))
    ELSE ProvidedIDs(Tail(events))

\* C6: an iteration that queued n >= 1 calls appends exactly one tool-role
\* message; it has n blocks, all ToolResult, the j-th carrying the id of the
\* j-th ToolUse the provider sent in that iteration.
C6_OneToolMessageInCallOrder ==
    (pc = "loop" /\ i > 0) =>
        LET ids  == ProvidedIDs(provided)
            msgs == memory.messages
            n    == Len(msgs)
        IN  /\ Len(ids) >= 1
            /\ n >= 2
            /\ msgs[n - 1] = assistantMessage
            /\ msgs[n].Role = "tool"
            /\ Len(msgs[n].Content) = Len(ids)
            /\ \A j \in 1..Len(ids) :
                   /\ msgs[n].Content[j].kind = "tool_result"
                   /\ msgs[n].Content[j].ToolUseID = ids[j]

C6_Witness ==
    /\ pc = "loop"
    /\ i > 0
    /\ Len(ProvidedIDs(provided)) = 2
    /\ Last(memory.messages).Content[1].IsError

\* ---------------------------------------------------------------------------
\* The iteration cap (agent.go 15, 162)

\* C7 as stated: one ProcessMessage issues at most 10 provider chat requests,
\* and the exit at the cap sends no Error event.
C7_AtMostTenChatRequests ==
    /\ chatCalls <= MaxToolIterations
    /\ (exit = "cap" /\ pc = "idle") => Last(sent).Type # "error"

\* C7, amended: the loop itself issues at most 10 chat requests, one per
\* iteration; the compactor adds at most one summary request per iteration;
\* the exit at the cap comes after the 10th iteration's results were sent and
\* committed, the channel is closed and the last event sent is no Error.
C7_AtMostTenLoopRequests ==
    /\ loopChats <= MaxToolIterations
    /\ chatCalls - loopChats <= MaxToolIterations
    /\ (exit = "cap" /\ pc = "idle") =>
            /\ i = MaxToolIterations
            /\ loopChats = MaxToolIterations
            /\ closed
            /\ Last(sent).Type \in {"tool_result", "token_update"}
            /\ Last(memory.messages) = Message("tool", toolResults)

C7_Witness ==
    /\ exit = "cap"
    /\ pc = "idle"
    /\ chatCalls > MaxToolIterations
    /\ Len(toolCalls) > 0

\* ---------------------------------------------------------------------------
\* Exits (agent.go 138, 194-262)

\* The goroutine of processLoop takes its next step; the provider's stream
\* delivers its next event or closes; a running tool returns.
LoopStep ==
    \/ LoopExit
    \/ Prepare
    \/ ChatFail
    \/ ChatOpen
    \/ \E d \in TextDeltas : StreamTextDelta(d)
    \/ \E name \in ToolNames : StreamToolUse(name)
    \/ StreamMessageDone
    \/ StreamError
    \/ StreamClose
    \/ ExecNotFound
    \/ ExecAskConfirm
    \/ \E o \in ToolOutcomes, out \in ToolOutputs : ExecDirect(o, out)
    \/ ExecDirectPanics
    \/ \E o \in ToolOutcomes, out \in ToolOutputs : ConfirmRecv(o, out)
    \/ ConfirmCtxDone
    \/ CommitToolMessage

\* The user answers a preview that is on screen.
UserAnswers == \E d \in Decisions : SendDecision(d)

LiveSpec ==
    /\ Spec
    /\ WF_vars(LoopStep)
    /\ WF_vars(UserAnswers)

ProviderFails == pc \in {"chat", "stream"} /\ exit' \in {"chat_error", "stream_error"}

\* C9: when the provider fails, by Chat returning an error or by an Error
\* event in the stream, the loop sends exactly one Error event and closes the
\* channel, leaves Memory without the partial assistant message, and until the
\* next ProcessMessage (or a new start of the program) sends nothing more and
\* makes no provider request.
C9_ProviderFailureEndsTurn ==
    [][/\ ProviderFails =>
            /\ Len(sent') = Len(sent) + 1
            /\ SubSeq(sent', 1, Len(sent)) = sent
            /\ Last(sent').Type = "error"
            /\ memory' = memory
            /\ closed'
            /\ pc' = "idle"
       /\ (closed /\ closed' /\ pc' = "idle") =>
            /\ sent' = sent
            /\ memory' = memory
            /\ chatCalls' = chatCalls]_vars

C9_Witness ==
    /\ exit = "stream_error"
    /\ closed
    /\ assistantMessage.Content # <<>>
    /\ Last(memory.messages).Role = "user"

\* C10: when PrepareContext fails, the loop sends an Error event, leaves
\* Memory as it was, and goes on to issue this iteration's provider request
\* with the messages it read from Memory.
C10_PrepareFailureIsNotFatal ==
    [][/\ (pc = "loop" /\ LoopContinues(i) /\ prepareErr') =>
            /\ sent' = <<EvError("context management failed")>>
            /\ memory' = memory
            /\ messages' = memory.messages
            /\ pc' = "chat"
            /\ ~closed'
       /\ (pc = "chat" /\ prepareErr) =>
            /\ loopChats' = loopChats + 1
            /\ messages' = messages
            /\ memory' = memory]_vars

C10_Witness ==
    /\ pc = "stream"
    /\ prepareErr
    /\ messages = memory.messages
    /\ Len(messages) > ProtectedMessages

\* ---------------------------------------------------------------------------
\* The context manager inside the loop (agent.go 163-183, Manager.PrepareContext)

\* The token rows Memory holds for a message list.
TokenInfoOf(msgs) == [j \in 1..Len(msgs) |-> TokenInfoRow(j - 1, msgs[j])]

\* The request of this iteration is built and PrepareContext was called for it.
PreparedHere == pc = "chat" /\ contextManager.present

AtCompactLevel(msgs) ==
    CheckContext(contextManager, calculateTokens(TokenInfoOf(msgs))) = "compact"

CompactorApplies == contextManager.autoCompact /\ contextManager.hasCompactor

PrunerApplies(msgs) ==
    /\ contextManager.autoPrune
    /\ ShouldPrune(contextManager.protected, TokenInfoOf(msgs))

\* C11: whenever PrepareContext returns a sequence that differs from the
\* snapshot of Memory it was given, compacted or pruned, Memory is replaced by
\* it, ContextUpdate and TokenUpdate are sent and the request is built from it.
C11_DifferentSequenceReplacesMemory ==
    (PreparedHere /\ ~prepared.err /\ prepared.out # prepared.in) =>
        /\ memory.messages = prepared.out
        /\ messages = prepared.out
        /\ Len(sent) = 2
        /\ sent[1] = EvContextUpdate
        /\ sent[2].Type = "token_update"

\* No block of the sequence carries the pruner's placeholder.
NotPruned(msgs) ==
    \A k \in 1..Len(msgs) : \A b \in 1..Len(msgs[k].Content) :
        msgs[k].Content[b].kind = "tool_result"
            => msgs[k].Content[b].Content # PrunedPlaceholder

\* C12: at the compact level, with auto-compaction on and a compactor, a
\* PrepareContext call that does not fail publishes Compacted and returns the
\* compactor's sequence; the pruner is not run, also when auto-pruning is on
\* and ShouldPrune holds.
C12_CompactionPreferredOverPruning ==
    (PreparedHere /\ AtCompactLevel(prepared.in) /\ CompactorApplies /\ ~prepared.err) =>
        /\ prepared.event = "compacted"
        /\ NotPruned(prepared.out)
        /\ IF Len(prepared.in) > ProtectedMessages
           THEN /\ prepared.out # prepared.in
                /\ prepared.out[2] = AckMessage
           ELSE prepared.out = prepared.in

C12_Witness ==
    /\ PreparedHere
    /\ prepared.event = "compacted"
    /\ Len(prepared.in) > ProtectedMessages
    /\ PrunerApplies(prepared.in)

\* Whether out[k] is in[k] with every ToolResult content replaced by the
\* placeholder, ids and error flags kept.
RewrittenFrom(o, m) ==
    /\ o.Role = m.Role
    /\ Len(o.Content) = Len(m.Content)
    /\ \E b \in 1..Len(m.Content) : m.Content[b].kind = "tool_result"
    /\ \A b \in 1..Len(m.Content) :
           IF m.Content[b].kind = "tool_result"
           THEN /\ o.Content[b].kind = "tool_result"
                /\ o.Content[b].ToolUseID = m.Content[b].ToolUseID
                /\ o.Content[b].IsError = m.Content[b].IsError
                /\ o.Content[b].Content = PrunedPlaceholder
           ELSE o.Content[b] = m.Content[b]

\* Tokens the placeholders are shorter than the contents they replace, summed
\* over the rewritten messages (negative when they are longer).
TokensSaved(in, out) ==
    SumSeq([k \in 1..Len(in) |->
              IF out[k] = in[k] THEN 0
              ELSE SumSeq([b \in 1..Len(in[k].Content) |->
                             IF in[k].Content[b].kind = "tool_result"
                             THEN EstimateTokens(in[k].Content[b].Content)
                                    - EstimateTokens(PrunedPlaceholder)
                             ELSE 0])])

PruneCase ==
    /\ PreparedHere
    /\ AtCompactLevel(prepared.in)
    /\ ~CompactorApplies
    /\ PrunerApplies(prepared.in)

\* C13 as stated: at the compact level, without compaction, with auto-pruning
\* on and ShouldPrune true, PrepareContext publishes Pruned and returns the
\* pruner's output, whose estimated tokens are strictly fewer than the input's.
C13_PrunedTokensStrictlyLower ==
    PruneCase =>
        /\ prepared.event = "pruned"
        /\ EstimateMessages(prepared.out) < EstimateMessages(prepared.in)

\* C13, amended: in that case PrepareContext publishes Pruned and returns the
\* pruner's output: as long as the input, each message either unchanged or
\* with its ToolResult contents replaced by the placeholder (ids and error
\* flags kept); the token total falls by what the replaced contents exceed
\* their placeholders, so it is lower only when they are longer.
C13_PrunedOutputRewritesResults ==
    PruneCase =>
        /\ prepared.event = "pruned"
        /\ ~prepared.err
        /\ Len(prepared.out) = Len(prepared.in)
        /\ \A k \in 1..Len(prepared.in) :
               \/ prepared.out[k] = prepared.in[k]
               \/ RewrittenFrom(prepared.out[k], prepared.in[k])
        /\ EstimateMessages(prepared.in) - EstimateMessages(prepared.out)
               = TokensSaved(prepared.in, prepared.out)

C13_Witness ==
    /\ PruneCase
    /\ EstimateMessages(prepared.out) < EstimateMessages(prepared.in)
    /\ \E k \in 1..Len(prepared.in) :
           /\ prepared.out[k] # prepared.in[k]
           /\ prepared.out[k].Content[1].IsError

\* ---------------------------------------------------------------------------
\* Compactor.Compact (part_019 77-161)

SummaryOpen == "[Previous Conversation Summary]\n"

SummaryEnd == "\n[End Summary]"

\* The summary text generateSummary returns for a reply that did not fail.
SummaryOf(reply) == TrimSpace(DeltaText(reply.events, Len(reply.events)))

\* C14: compacting N > ProtectedMessages messages gives ProtectedMessages + 2
\* messages: a user message with the summary between the two markers, the
\* assistant's acknowledgement, then the last ProtectedMessages messages of the
\* input, unchanged and in order.
C14_CompactKeepsProtectedTail ==
    (PreparedHere /\ prepared.event = "compacted"
       /\ Len(prepared.in) > ProtectedMessages) =>
        LET in  == prepared.in
            out == prepared.out
        IN  /\ Len(out) = ProtectedMessages + 2
            /\ out[1].Role = "user"
            /\ Len(out[1].Content) = 1
            /\ out[1].Content[1].kind = "text"
            /\ out[1].Content[1].Text
                   = SummaryOpen \o SummaryOf(prepared.reply) \o SummaryEnd
            /\ out[2].Role = "assistant"
            /\ Len(out[2].Content) = 1
            /\ out[2].Content[1] = TextContent(AckText)
            /\ \A k \in 1..ProtectedMessages :
                   out[2 + k] = in[Len(in) - ProtectedMessages + k]

C14_Witness ==
    /\ PreparedHere
    /\ prepared.event = "compacted"
    /\ Len(prepared.in) > ProtectedMessages + 2
    /\ Len(prepared.reply.events) = 3
    /\ prepared.out[1].Content[1].Text = SummaryOpen \o "SUM" \o SummaryEnd

SummaryFailed(reply) ==
    \/ reply.chatErr
    \/ \E k \in 1..Len(reply.events) : reply.events[k].kind = "error"

\* C15: when the summary request fails, by provider.Chat returning an error or
\* by an Error event in its stream, the compaction fails as a whole: no
\* compacted sequence is returned and Memory keeps the full sequence.
C15_FailedSummaryLeavesMemory ==
    (PreparedHere /\ SummaryFailed(prepared.reply)) =>
        /\ prepared.err
        /\ prepared.event = "error"
        /\ prepared.out = prepared.in
        /\ memory.messages = prepared.in
        /\ messages = prepared.in
        /\ Len(memory.messages) > ProtectedMessages

C15_Witness ==
    /\ PreparedHere
    /\ prepared.err
    /\ ~prepared.reply.chatErr
    /\ Len(prepared.reply.events) = 2
    /\ prepared.reply.events[1].kind = "text_delta"
    /\ memory.messages = prepared.in

\* ---------------------------------------------------------------------------
\* Provider adapters (streamResponse)

EmittedAt(types) == {k \in 1..Len(emitted) : emitted[k].Type \in types}

\* C16: for each adapter and every response body, the events sent hold exactly
\* one MessageStart, before the first TextDelta or ToolUse, and end with
\* exactly one terminator, MessageDone or Error, the last event sent.
C16_OneStartOneTerminator ==
    apc = "closed" =>
        /\ Cardinality(EmittedAt({"message_start"})) = 1
        /\ \A k \in EmittedAt({"text_delta", "tool_use"}) :
               \E st \in EmittedAt({"message_start"}) : st < k
        /\ EmittedAt({"message_done", "error"}) = {Len(emitted)}

\* The positions in the body of the chunks the openai adapter acts on.
ChunksWith(P(_)) ==
    {k \in 1..Len(body) : body[k].kind = "data" /\ body[k].type # "nochoices" /\ P(body[k])}

HasFinish(line) == line.finish = "tool_calls"

HasToolCall(line) == line.tcs # <<>>

HasID(line) == \E j \in 1..Len(line.tcs) : line.tcs[j].hasID

HasName(line) == \E j \in 1..Len(line.tcs) : line.tcs[j].hasName

HasArgs(line) == \E j \in 1..Len(line.tcs) : line.tcs[j].hasArgs

\* The arguments fragments of lines[1..n], in the order they arrived.
RECURSIVE FragmentsOf(_, _)
FragmentsOf(lines, n) ==
    IF n = 0 THEN <<>>
    ELSE FragmentsOf(lines, n - 1)
           \o (IF lines[n].kind = "data" /\ HasArgs(lines[n])
               THEN <<lines[n].tcs[1].args>> ELSE <<>>)

RECURSIVE Joined(_, _)
Joined(strs, n) == IF n = 0 THEN "" ELSE Joined(strs, n - 1) \o strs[n]

\* The ids of the tool calls the body's chunks carry.
IDsStreamed ==
    UNION {{body[k].tcs[j].id : j \in {h \in 1..Len(body[k].tcs) : body[k].tcs[h].hasID}} :
             k \in ChunksWith(HasToolCall)}

\* The body carried one tool call, c1, in pieces: its id, its name and its
\* arguments in chunks of their own, all before the one chunk whose
\* finish_reason is "tool_calls", and no line that fails to parse.
FragmentedToolCall ==
    /\ mode = "openai"
    /\ apc = "closed"
    /\ \A k \in 1..Len(body) : body[k].kind # "bad"
    /\ Cardinality(ChunksWith(HasFinish)) = 1
    /\ IDsStreamed = {"c1"}
    /\ ChunksWith(HasName) # {}
    /\ ChunksWith(HasArgs) # {}
    /\ \A k \in ChunksWith(HasToolCall) : \A f \in ChunksWith(HasFinish) : k < f

\* C17: in the openai adapter a tool call whose id, name and argument
\* fragments arrive in separate chunks gives exactly one ToolUse, sent when the
\* chunk with finish_reason "tool_calls" is read and not before, carrying that
\* id and name and the object parsed from the fragments joined in arrival
\* order, and followed by exactly one MessageDone.
C17_FragmentsMakeOneToolUse ==
    /\ (mode = "openai" /\ ChunksWith(HasFinish) = {}) => EmittedAt({"tool_use"}) = {}
    /\ FragmentedToolCall =>
           LET frags == FragmentsOf(body, Len(body))
           IN  \E u \in 1..Len(emitted), d \in 1..Len(emitted) :
                   /\ EmittedAt({"tool_use"}) = {u}
                   /\ emitted[u].ToolUse.ID = "c1"
                   /\ emitted[u].ToolUse.Name = "file_read"
                   /\ emitted[u].ToolUse.Input = ParseObject(Joined(frags, Len(frags)))
                   /\ EmittedAt({"message_done"}) = {d}
                   /\ u < d

C17_Witness ==
    /\ FragmentedToolCall
    /\ Len(FragmentsOf(body, Len(body))) = 2
    /\ \E u \in EmittedAt({"tool_use"}) :
           emitted[u].ToolUse = ToolUse("c1", "file_read", Object({<<"path", "foo">>}))
    /\ emitted[Len(emitted)] = EvDone

\* ---------------------------------------------------------------------------
\* The provider's stream inside the loop (agent.go 203-267)

\* sent and provided both describe the response of the current iteration.
ResponseRead ==
    \/ pc \in {"stream", "exec", "confirm", "commit"}
    \/ pc = "loop" /\ i > 0
    \/ pc = "idle" /\ exit \in {"no_tools", "stream_error", "cap"}

IsForward(ev) == ev.Type \in {"text_delta", "tool_call", "message_done"}

IsPayload(ev) == ev.kind \in {"text_delta", "tool_use", "message_done"}

\* The agent event that forwards a provider event.
Forwards(ev, p) ==
    CASE p.kind = "text_delta" -> ev = EvTextDelta(p.Content)
      [] p.kind = "tool_use"   -> ev.Type = "tool_call" /\ ev.ToolUse.ID = p.ID
      [] OTHER                 -> ev = EvMessageDone

AssistantCommitted ==
    \/ pc \in {"exec", "confirm"}
    \/ pc = "idle" /\ exit = "no_tools"

CommittedAssistant ==
    IF pc = "idle" THEN Last(memory.messages) ELSE assistantMessage

IsToolUseBlock(b) == b.kind = "tool_use"

IsTextBlock(b) == b.kind = "text"

IsToolUseEvent(ev) == ev.kind = "tool_use"

RECURSIVE BlockText(_, _)
BlockText(blocks, n) == IF n = 0 THEN "" ELSE BlockText(blocks, n - 1) \o blocks[n].Text

\* C19: the assistant message committed at the end of an iteration holds, in
\* stream order, every ToolUse received, and text blocks whose concatenation is
\* the concatenation of the TextDeltas forwarded in the iteration.
C19_AssistantMessageHoldsStream ==
    AssistantCommitted =>
        LET uses  == SelectSeq(CommittedAssistant.Content, IsToolUseBlock)
            texts == SelectSeq(CommittedAssistant.Content, IsTextBlock)
            calls == SelectSeq(provided, IsToolUseEvent)
        IN  /\ Last(memory.messages).Role = "assistant" \/ pc # "idle"
            /\ Len(uses) = Len(calls)
            /\ \A k \in 1..Len(calls) : uses[k].ID = calls[k].ID
            /\ BlockText(texts, Len(texts)) = DeltaText(provided, Len(provided))

\* ---------------------------------------------------------------------------
\* AlwaysAllow (executor.go 69-77, permissions.Settings)

TuiSpec ==
    /\ TuiInit
    /\ [][TuiNext]_vars
    /\ WF_vars(LoopStep)
    /\ WF_vars(TuiReceive)
    /\ WF_vars(UserAnswers)

\* Every decision the Model sends answers a ToolPreview that is outstanding.
DecisionsAnswerPreviews ==
    [][Len(confirmChan') > Len(confirmChan) => previewShown /\ ~previewShown']_vars

\* C21: every ToolPreview the agent emits is answered by exactly one decision
\* of the TUI on the confirmation channel, and the TUI sends no decision while
\* no ToolPreview is outstanding.
C21_OneDecisionPerPreview ==
    /\ DecisionsAnswerPreviews
    /\ previewShown ~> ~previewShown

\* ---------------------------------------------------------------------------
\* A tool that fails (executor.go 80-85, agent.go 273-290)

\* C22: a call whose tool panics or returns an error gets an error result of
\* its own, and the loop goes on: the failure does not leave the Executor.
C22_ToolFailureBecomesErrorResult ==
    /\ pc # "crashed"
    /\ \A j \in 1..Len(execLog) :
          execLog[j].outcome \in {"error", "panic"} =>
              /\ j <= Len(toolResults)
              /\ toolResults[j].ToolUseID = execLog[j].ID
              /\ toolResults[j].IsError

\* ---------------------------------------------------------------------------
\* Prune (projectfiles.go 218-296)

Pruned == pruneOut # <<>>

Rewritten(j) == pruneOut[1][j] # memory.messages[j]

ProtectedRow(j) ==
    j <= Len(memory.tokenInfo) /\ memory.tokenInfo[j].ToolName \in contextManager.protected

\* C23: Prune returns unchanged every message whose row names a tool of the
\* protected set (the defaults and what the caller added), wherever the message
\* stands and however many of the tokens are its own.
C23_ProtectedToolsNeverRewritten ==
    Pruned => \A j \in 1..Len(memory.messages) :
                 ProtectedRow(j) => ~Rewritten(j)

C23_Witness ==
    /\ Pruned
    /\ Len(memory.messages) = 3
    /\ "bash" \in contextManager.protected
    /\ ProtectedRow(1) /\ memory.tokenInfo[1].ToolName = "bash"
    /\ memory.tokenInfo[1].IsPrunable
    /\ memory.tokenInfo[1].Tokens = 5
    /\ memory.messages[1].Role = "tool"
    /\ memory.messages[1] = memory.messages[2]
    /\ Rewritten(2)

\* Sum of the tokens of the rows j..Len, 1-based.
SuffixSum(j) == SuffixTokens(memory.tokenInfo, j)

\* The cutoff as the sentence defines it, 0-based: the largest index whose
\* suffix sum reaches protection_ratio x total.
RatioCutoff ==
    LET reach == {j \in 1..Len(memory.tokenInfo) :
                     SuffixSum(j) * 100 >= ProtectionPercent * SuffixSum(1)}
    IN  IF reach = {} THEN Len(memory.messages)
        ELSE (CHOOSE j \in reach : \A h \in reach : h <= j) - 1

\* C24: Prune rewrites only messages strictly before the cutoff, the largest
\* index whose suffix token sum reaches protection_ratio x total tokens; every
\* message at or after the cutoff is returned unchanged.
C24_OnlyBeforeCutoffRewritten ==
    Pruned => \A j \in 1..Len(memory.messages) :
                 j - 1 >= RatioCutoff => ~Rewritten(j)

\* The same with the cutoff the code computes, from the threshold cut to an
\* integer.
OnlyBeforeCodeCutoffRewritten ==
    Pruned => \A j \in 1..Len(memory.messages) :
                 j - 1 >= CutoffIndex(memory.messages, memory.tokenInfo) => ~Rewritten(j)

\* C25: Prune returns as many messages as it was given; every message keeps
\* its role and its number of blocks, every ToolResult its tool_use_id and
\* is_error, every other block is unchanged; only the content of a ToolResult
\* may change, and only to the placeholder.
C25_PruneKeepsShape ==
    Pruned =>
        /\ Len(pruneOut[1]) = Len(memory.messages)
        /\ \A j \in 1..Len(memory.messages) :
              LET old == memory.messages[j]
                  new == pruneOut[1][j]
              IN  /\ new.Role = old.Role
                  /\ Len(new.Content) = Len(old.Content)
                  /\ \A k \in 1..Len(old.Content) :
                        IF old.Content[k].kind = "tool_result"
                        THEN /\ new.Content[k].kind = "tool_result"
                             /\ new.Content[k].ToolUseID = old.Content[k].ToolUseID
                             /\ new.Content[k].IsError = old.Content[k].IsError
                             /\ new.Content[k].Content
                                    \in {old.Content[k].Content, PrunedPlaceholder}
                        ELSE new.Content[k] = old.Content[k]

C25_Witness ==
    /\ Pruned
    /\ Len(memory.messages) = 3
    /\ Len(memory.messages[1].Content) = 2
    /\ Rewritten(1)
    /\ pruneOut[1][1].Content[2].Content = PrunedPlaceholder
    /\ pruneOut[1][1].Content[2].IsError
    /\ ~Rewritten(3)

\* C26: pruning what has been pruned changes nothing: the messages Prune
\* rewrote come out of a second rewrite identical, placeholder, ids and flags.
C26_PruningIsIdempotent ==
    Len(pruneOut) = 2 => pruneOut[2] = pruneOut[1]

C26_Witness ==
    /\ Len(pruneOut) = 2
    /\ Len(memory.messages) = 3
    /\ Rewritten(1)
    /\ Rewritten(2)
    /\ pruneOut[2][1].Content[Len(pruneOut[2][1].Content)].Content = PrunedPlaceholder

(***************************************************************************)
(* Memory's accounting                                                     *)
(***************************************************************************)
\* Only calls on Memory have changed what it stores.
OnlyCalls == ~hist.wrote

TotalIsSum ==
    OnlyCalls =>
        GetTotalTokens(memory) =
            EstimateMessages(memory.messages) + memory.systemTokens

AddRaisesByEstimate ==
    \A t \in Threads :
        (thr[t].pc = "built" /\ thr'[t].pc = "appended") =>
            GetTotalTokens(memory') - GetTotalTokens(memory) = EstimateMessage(thr[t].msg)

\* C27: after any sequence of AddMessage, ReplaceMessages, Clear and
\* SetSystemTokens calls, GetTotalTokens is the sum of the estimates of the
\* stored messages plus the stored system tokens, and each AddMessage raises
\* it by the estimate of its message.
C27_TotalIsSumOfEstimates == [](TotalIsSum) /\ [][AddRaisesByEstimate]_vars

\* An AddMessage that has appended, after a replacement and with system
\* tokens set.
C27_Witness ==
    /\ OnlyCalls
    /\ ~hist.pure
    /\ memory.systemTokens = 7
    /\ Len(memory.messages) = 2
    /\ \E t \in Threads : thr[t].pc = "appended"

\* C28: after any sequence of AddMessage and ReplaceMessages calls there is
\* one TokenInfo row per stored message, row i has MessageIndex i, and its
\* Tokens, Role and IsPrunable are those of message i, IsPrunable being true
\* exactly for a tool message or a message with a ToolResult block.
C28_OneRowPerMessage ==
    OnlyCalls =>
        /\ Len(memory.tokenInfo) = Len(memory.messages)
        /\ \A j \in 1..Len(memory.messages) :
             LET msg == memory.messages[j]
                 row == memory.tokenInfo[j]
             IN  /\ row.MessageIndex = j - 1
                 /\ row.Tokens = EstimateMessage(msg)
                 /\ row.Role = msg.Role
                 /\ row.IsPrunable =
                      (\/ msg.Role = "tool"
                       \/ \E b \in 1..Len(msg.Content) : msg.Content[b].kind = "tool_result")

\* A user message with a tool result added behind a replacement of two.
C28_Witness ==
    /\ OnlyCalls
    /\ ~hist.pure
    /\ hist.added # <<>>
    /\ Len(memory.messages) = 3
    /\ memory.messages[3].Role = "user"
    /\ memory.tokenInfo[3].IsPrunable
    /\ ~memory.tokenInfo[1].IsPrunable

\* C29: what GetMessages and GetTokenInfo return are copies: whatever the
\* caller does to a returned sequence or to its elements, Memory returns what
\* its last call left stored.
C29_ReturnedCopiesAreIndependent == Stored(memory) = hist.ret

\* The same for the assignments that stay in the returned arrays: of a field
\* of an element, of a row.
AssignmentsToElementsStayLocal == OnlyCalls => Stored(memory) = hist.ret

AllReturned == mu = 0 /\ \A t \in Threads : thr[t].pc = "idle"

\* C30: when every call has returned and only AddMessage and readers were
\* called, in whatever interleaving, no add is lost: Memory holds as many
\* messages as AddMessage was called with, the rows carry each index
\* 0..n-1 once, and GetTotalTokens is the sum of the estimates of the added
\* messages plus the system tokens.
C30_NoAddLost ==
    (AllReturned /\ hist.pure) =>
        LET n == Len(hist.added)
        IN  /\ Len(memory.messages) = n
            /\ Len(memory.tokenInfo) = n
            /\ {memory.tokenInfo[j].MessageIndex : j \in 1..Len(memory.tokenInfo)} = 0..(n - 1)
            /\ GetTotalTokens(memory) = EstimateMessages(hist.added) + memory.systemTokens

\* Two adds returned, with a read between them.
C30_Witness ==
    /\ AllReturned
    /\ hist.pure
    /\ Len(hist.added) = 2
    /\ Len(snap.msgs) = 1
    /\ Len(memory.messages) = 2

(***************************************************************************)
(* Budget                                                                  *)
(***************************************************************************)
\* C31: a snapshot with effective limit max and current tokens c has
\* AtWarningLevel iff max > 0 and c / max >= 0.80, and AtCompactLevel iff
\* max > 0 and c / max >= 0.90: at exactly 0.80 of max the first only, at
\* exactly 0.90 both, and with max = 0 a usage of 0 and neither.
C31_LevelsAtThresholds ==
    snapshot.taken =>
        LET r   == snapshot.result
            c   == r.CurrentContextTokens
            max == r.MaxContextTokens
        IN  /\ r.AtWarningLevel = (max > 0 /\ c * 100 >= WarnPercent * max)
            /\ r.AtCompactLevel = (max > 0 /\ c * 100 >= CompactPercent * max)
            /\ (max > 0 /\ c * 100 = WarnPercent * max)
                   => (r.AtWarningLevel /\ ~r.AtCompactLevel)
            /\ (max > 0 /\ c * 100 = CompactPercent * max)
                   => (r.AtWarningLevel /\ r.AtCompactLevel)
            /\ max = 0 => (r.UsagePercent = 0 /\ ~r.AtWarningLevel /\ ~r.AtCompactLevel)

\* A snapshot at exactly 0.80 of a limit of 50.
C31_Witness ==
    /\ snapshot.taken
    /\ snapshot.result.MaxContextTokens = 50
    /\ snapshot.result.CurrentContextTokens = 40
    /\ snapshot.result.AtWarningLevel
    /\ ~snapshot.result.AtCompactLevel

\* The smaller of two numbers.
Min(a, b) == IF a < b THEN a ELSE b

\* C32: the max of a snapshot is min(max_tokens, model context size if it is
\* positive, else no bound) minus the reserve, also after
\* UpdateModelContextSize.
C32_SnapshotMaxIsEffectiveLimit ==
    snapshot.taken =>
        LET b == snapshot.of
        IN  snapshot.result.MaxContextTokens =
                (IF b.modelContextSize > 0
                 THEN Min(b.maxTokens, b.modelContextSize)
                 ELSE b.maxTokens) - b.reserveForResponse

\* A snapshot taken after the model size was updated to 50, and one after it
\* was updated to a size above max_tokens.
C32_Witness ==
    /\ snapshot.taken
    /\ snapshot.of.modelContextSize = 50
    /\ snapshot.of.maxTokens = 100
    /\ snapshot.of.reserveForResponse = 0
    /\ snapshot.result.MaxContextTokens = 50

AllRecorded == bmu = 0 /\ \A t \in Threads : bthr[t].pc = "idle"

InputSum == SumSeq([k \in 1..Len(usage) |-> usage[k][1]])

OutputSum == SumSeq([k \in 1..Len(usage) |-> usage[k][2]])

\* The session's token counters are the sums of the calls' arguments.
SessionTokensAreSums ==
    AllRecorded =>
        /\ budget.totalInputTokens = InputSum
        /\ budget.totalOutputTokens = OutputSum

\* C33: after any RecordUsage calls, one after the other or from several
\* goroutines, the session's input tokens, output tokens and cost are what one
\* RecordUsage call with the sums of the arguments leaves.
C33_RecordUsageIsAdditive ==
    AllRecorded =>
        LET fresh == [budget EXCEPT !.totalInputTokens = 0, !.totalOutputTokens = 0,
                                    !.sessionCost = FloatZero]
            once  == RecordUsage(fresh, InputSum, OutputSum)
        IN  /\ budget.totalInputTokens = once.totalInputTokens
            /\ budget.totalOutputTokens = once.totalOutputTokens
            /\ budget.sessionCost = once.sessionCost

(***************************************************************************)
(* The context manager's events                                            *)
(***************************************************************************)
NoRoom == ~cmEvents.present \/ Len(cmEvents.buf) >= cmEvents.cap

EmitStep == cmCall.pc = "emit" /\ cmCall'.pc = "returned"

\* C34: publishing a context event never holds PrepareContext up: the call
\* that has an event to publish returns; with no channel or a full buffer the
\* event is dropped, the channel left as it was; and the messages returned
\* are those PrepareContext decided on before publishing.
C34_EmitNeverBlocks ==
    /\ (cmCall.pc = "emit") ~> (cmCall.pc = "returned")
    /\ [][(EmitStep /\ NoRoom) => cmEvents' = cmEvents]_vars
    /\ [][(EmitStep /\ ~NoRoom) => cmEvents'.buf = Append(cmEvents.buf, cmCall.r.event)]_vars
    /\ [](cmCall.pc = "returned" =>
            cmCall.r.messages =
                PrepareContext(contextManager, memory.messages, memory.tokenInfo,
                               [ok |-> TRUE, text |-> "SUM"]).messages)

\* A call that pruned has returned with the buffer still full of the event
\* that was there before.
C34_Witness ==
    /\ cmCall.pc = "returned"
    /\ cmCall.r.event = "pruned"
    /\ cmCall.r.messages # memory.messages
    /\ cmEvents = EventChanOf(EventChanCap, <<"warning">>)

\* C35: the TUI starts a process call for the next user input only when the
\* event channel of the previous call has been closed, so that at most one
\* agent loop is active on the agent.
C35_NextCallAfterClose ==
    [][(tui' = "second" /\ tui # "second") => closed]_vars

\* The decision a waiting Execute receives was sent in answer to the
\* ToolPreview of the call it is executing.
AnswerIsForCurrentCall == Head(answerFor) = CurrentCall.ID

\* C36: each decision received from the confirmation channel is applied to
\* the tool call whose ToolPreview the user was answering; a decision left in
\* the channel from an earlier prompt is never consumed for another call.
C36_DecisionAppliedToItsCall ==
    [][(pc = "confirm" /\ Len(confirmChan') < Len(confirmChan) /\ turn' = turn)
         => AnswerIsForCurrentCall]_vars

\* agent.go 220-229: the ToolUse blocks the loop appends to the assistant
\* message, and to toolCalls, from the events of one reply, as they come.
ReplyToolUses(events) ==
    LET uses == SelectSeq(events, LAMBDA e : e.Type = "tool_use")
    IN  [k \in 1..Len(uses) |-> uses[k].ToolUse]

\* C37: the ids of the ToolUse blocks that reach Memory are pairwise
\* distinct, also when a model served through the Ollama adapter calls the
\* same tool twice in one reply.
C37_ToolUseIdsDistinct ==
    LET uses == ReplyToolUses(emitted)
    IN  \A j, k \in 1..Len(uses) : j # k => uses[j].ID # uses[k].ID

\* The ToolUse blocks stored in Memory that carry the given id.
ToolUsesWithID(m, id) ==
    {b \in UNION {{m.messages[j].Content[k] : k \in 1..Len(m.messages[j].Content)} :
                     j \in 1..Len(m.messages)} :
        b.kind = "tool_use" /\ b.ID = id}

\* C38: the TokenInfo row of every tool-role message the loop committed
\* carries the name of the tool whose result the message holds, which is what
\* the Pruner's protected-tool check reads.
C38_ToolRowsCarryToolName ==
    \A j \in 1..Len(memory.messages) :
        (/\ j <= Len(memory.tokenInfo)
         /\ memory.messages[j].Role = "tool"
         /\ FirstOfKind(memory.messages[j], "tool_result") # 0)
        => \A b \in ToolUsesWithID(memory, memory.tokenInfo[j].ToolUseID) :
               memory.tokenInfo[j].ToolName = b.Name

(***************************************************************************)
(* buildRequest of the three adapters: the wire form of one message.  A    *)
(* wire message has a role, a content (absent, a string, or a list of      *)
(* parts), a tool_calls list and at most one tool_call_id.                 *)
(***************************************************************************)
WireAbsent == [kind |-> "absent"]

WireString(text) == [kind |-> "string", text |-> text]

WireParts(parts) == [kind |-> "parts", parts |-> parts]

WireMessage(role, content, calls, toolCallID) ==
    [role |-> role, content |-> content, tool_calls |-> calls,
     tool_call_id |-> toolCallID]

BlocksOfKind(blocks, kind) == SelectSeq(blocks, LAMBDA b : b.kind = kind)

\* openai, part_003 286-314: text blocks become parts; no other block of
\* those the agent stores has a case in the switch.
openaiConvertContent(blocks) ==
    IF Len(blocks) = 0 THEN WireString("")
    ELSE IF Len(blocks) = 1 /\ blocks[1].kind = "text" THEN WireString(blocks[1].Text)
    ELSE LET texts == BlocksOfKind(blocks, "text")
         IN  WireParts([k \in 1..Len(texts) |->
                          [type |-> "text", text |-> texts[k].Text]])

\* openai, part_003 316-334.
openaiExtractToolCalls(blocks) ==
    LET uses == BlocksOfKind(blocks, "tool_use")
    IN  [k \in 1..Len(uses) |->
           [id |-> uses[k].ID, name |-> uses[k].Name, arguments |-> uses[k].Input]]

\* openai, part_003 225-254: one message of buildRequest's loop.
openaiMessage(msg) ==
    LET calls == IF msg.Role = "assistant"
                     THEN openaiExtractToolCalls(msg.Content) ELSE <<>>
        first == /\ msg.Role = "tool"
                 /\ Len(msg.Content) > 0
                 /\ msg.Content[1].kind = "tool_result"
    IN  WireMessage(msg.Role,
                    IF first THEN WireString(msg.Content[1].Content)
                    ELSE IF calls # <<>> /\ Len(msg.Content) = Len(calls)
                         THEN WireAbsent
                         ELSE openaiConvertContent(msg.Content),
                    calls,
                    IF first THEN <<msg.Content[1].ToolUseID>> ELSE <<>>)

\* anthropic, client_test.go 723-753: text and tool_result blocks become
\* parts; a tool_use block has no case in the switch.
anthropicConvertContent(blocks) ==
    LET kept == SelectSeq(blocks, LAMBDA b : b.kind \in {"text", "tool_result"})
    IN  [k \in 1..Len(kept) |->
           IF kept[k].kind = "text"
           THEN [type |-> "text", text |-> kept[k].Text]
           ELSE [type |-> "tool_result", tool_use_id |-> kept[k].ToolUseID,
                 content |-> kept[k].Content, is_error |-> kept[k].IsError]]

\* anthropic, client_test.go 684-703: one message of buildRequest's loop
\* (messages of role system are left out before).
anthropicMessage(msg) ==
    WireMessage(msg.Role,
                IF Len(msg.Content) = 1 /\ msg.Content[1].kind = "text"
                THEN WireString(msg.Content[1].Text)
                ELSE WireParts(anthropicConvertContent(msg.Content)),
                <<>>, <<>>)

\* ollama, client.go 140-155: content is overwritten by each text and each
\* tool_result block in turn.
RECURSIVE ollamaContent(_, _, _)
ollamaContent(blocks, k, content) ==
    IF k > Len(blocks) THEN content
    ELSE ollamaContent(blocks, k + 1,
                       CASE blocks[k].kind = "text"        -> blocks[k].Text
                         [] blocks[k].kind = "tool_result" -> blocks[k].Content
                         [] OTHER                          -> content)

\* ollama, client.go 133-168: one message of buildRequest's loop.
ollamaMessage(msg) ==
    LET uses == BlocksOfKind(msg.Content, "tool_use")
    IN  WireMessage(msg.Role,
                    WireString(ollamaContent(msg.Content, 1, "")),
                    [k \in 1..Len(uses) |->
                       [name |-> uses[k].Name, arguments |-> uses[k].Input]],
                    <<>>)

buildMessage(adapter, msg) ==
    CASE adapter = "openai"    -> openaiMessage(msg)
      [] adapter = "anthropic" -> anthropicMessage(msg)
      [] OTHER                 -> ollamaMessage(msg)

\* The tool calls a wire message carries, by name.
ToolUsesOnWire(w) == [k \in 1..Len(w.tool_calls) |-> w.tool_calls[k].name]

\* The tool results a wire message carries with their tool_use_id: the one
\* named by tool_call_id, and the tool_result parts of its content.
ResultsOnWire(w) ==
    (IF w.tool_call_id # <<>> /\ w.content.kind = "string"
     THEN <<[ToolUseID |-> w.tool_call_id[1], Content |-> w.content.text]>>
     ELSE <<>>)
    \o (IF w.content.kind = "parts"
        THEN LET parts == SelectSeq(w.content.parts,
                                    LAMBDA q : q.type = "tool_result")
             IN  [k \in 1..Len(parts) |->
                    [ToolUseID |-> parts[k].tool_use_id, Content |-> parts[k].content]]
        ELSE <<>>)

ToolUsesOf(msg) ==
    LET uses == BlocksOfKind(msg.Content, "tool_use")
    IN  [k \in 1..Len(uses) |-> uses[k].Name]

ResultsOf(msg) ==
    LET results == BlocksOfKind(msg.Content, "tool_result")
    IN  [k \in 1..Len(results) |->
           [ToolUseID |-> results[k].ToolUseID, Content |-> results[k].Content]]

\* The wire form an adapter gives a message carries all its tool calls and
\* all its tool results.
Carries(adapter, msg) ==
    LET w == buildMessage(adapter, msg)
    IN  /\ msg.Role = "assistant" => ToolUsesOnWire(w) = ToolUsesOf(msg)
        /\ msg.Role = "tool" => ResultsOnWire(w) = ResultsOf(msg)

\* C39: for every adapter, the wire request built from the request's
\* messages carries every ToolUse block of each assistant message and every
\* ToolResult block, with its tool_use_id, of each tool-role message.
C39_WireCarriesAllBlocks ==
    \A adapter \in Adapters : \A j \in 1..Len(messages) :
        Carries(adapter, messages[j])

\* The same for one adapter on its own, to tell the adapters apart.
OpenAICarriesAll == \A j \in 1..Len(messages) : Carries("openai", messages[j])

AnthropicCarriesAll == \A j \in 1..Len(messages) : Carries("anthropic", messages[j])

OllamaCarriesAll == \A j \in 1..Len(messages) : Carries("ollama", messages[j])

\* The tool call deltas of the first n lines of a body, in order.
RECURSIVE DeltasOf(_, _)
DeltasOf(lines, n) ==
    IF n = 0 THEN <<>> ELSE DeltasOf(lines, n - 1) \o lines[n].tcs

\* The tool calls a server streamed with the first n deltas: a delta with an
\* id begins a call, a delta without one continues the call begun last.
RECURSIVE StreamedCalls(_, _)
StreamedCalls(deltas, n) ==
    IF n = 0 THEN <<>>
    ELSE LET p == StreamedCalls(deltas, n - 1)
             d == deltas[n]
         IN  IF d.hasID
             THEN Append(p, [id |-> d.id, hasName |-> d.hasName, name |-> d.name,
                             args |-> IF d.hasArgs THEN d.args ELSE ""])
             ELSE IF p = <<>> THEN p
             ELSE [p EXCEPT ![Len(p)] =
                      [id      |-> @.id,
                       hasName |-> @.hasName \/ d.hasName,
                       name    |-> IF d.hasName THEN d.name ELSE @.name,
                       args    |-> IF d.hasArgs THEN @.args \o d.args ELSE @.args]]

\* Where the chunk with finish_reason "tool_calls" stands in the body, or 0.
FinishAt ==
    LET at == {k \in 1..Len(body) : body[k].kind = "data" /\ body[k].finish = "tool_calls"}
    IN  IF at = {} THEN 0 ELSE CHOOSE k \in at : \A h \in at : k <= h

\* The calls streamed before the completion finished with "tool_calls".
CallsOfCompletion ==
    LET deltas == DeltasOf(body, FinishAt)
    IN  StreamedCalls(deltas, Len(deltas))

\* C40: in the OpenAI adapter, a completion that streams k > 1 tool calls
\* makes exactly k ToolUse events, each with its own id, its own name and the
\* JSON parsed from its own argument fragments.
C40_OneToolUsePerStreamedCall ==
    (/\ mode = "openai"
     /\ FinishAt # 0
     /\ Len(CallsOfCompletion) > 1
     /\ \A k \in 1..Len(CallsOfCompletion) : CallsOfCompletion[k].hasName)
    => ReplyToolUses(emitted) =
          [k \in 1..Len(CallsOfCompletion) |->
              ToolUse(CallsOfCompletion[k].id, CallsOfCompletion[k].name,
                      ParseObject(CallsOfCompletion[k].args))]

====
